---- MODULE Spec2Model ----
(***************************************************************************)
(* G1 post-evacuation cleanup (g1YoungGCPostEvacuateTasks.cpp): the        *)
(* FreeCollectionSet, RedirtyLoggedCards and EagerlyReclaimHumongousObjects*)
(* subtasks of "Post Evacuate Cleanup 2" as state machines.                *)
(***************************************************************************)
EXTENDS Integers, Sequences, FiniteSets, TLC

\* ---------------------------------------------------------------- bounds
MaxRegions == 3
MaxWorkers == 2
GrainWords == 4
MaxTasks == 3
MaxCost == 3

\* The largest bufLen of a write, the off of a write that does not start at
\* the head of the array, and the most interruptions of one write call.
MaxBufLen == 130

MaxOff == 1

MaxEintr == 2

\* unsigned char buf[128]
BufSize == 128

\* ------------------------------------------------------------- constants
HeapWordSize == 8
GrainBytes == GrainWords * HeapWordSize

Regions == 1..MaxRegions
Workers == 0..(MaxWorkers - 1)
NoRegion == MaxRegions + 1
NoWorker == MaxWorkers

VARIABLES
  input,            \* per region: the attributes it has when the pause's cleanup starts
  hr_type,          \* HeapRegion type: "Young", "Old" or "Free"
  hr_used,          \* HeapRegion::used()
  old_set,          \* G1CollectedHeap::_old_set
  master_free_list, \* HeapRegionManager::_free_list
  eden,             \* G1CollectedHeap::_eden
  cset_regions,     \* G1CollectionSet::_collection_set_regions (the container)
  claims,           \* HeapRegionClaimer::_claims
  phase,            \* FreeCollectionSetTask: "none", "constructed", "configured", "destroyed"
  active_workers,   \* FreeCollectionSetTask::_active_workers
  worker_stats,     \* FreeCollectionSetTask::_worker_stats
  wpc,              \* per worker: position in do_work
  wpos,             \* per worker: cur_pos of the collection set iteration
  wreg,             \* per worker: the region claimed and being handled
  OldSets_lock,     \* owner of OldSets_lock, NoWorker when free
  summary_bytes,    \* G1CollectedHeap::_summary_bytes_used
  evacuation_info,  \* G1EvacInfo
  old_plab_stats,   \* alloc_buffer_stats(Old): failure used and waste
  policy,           \* G1Policy feedback
  surv_recorded,    \* young regions whose surviving words were recorded in their group
  visits,           \* per region: the workers whose closure was applied to it, in order
  failure_handled,  \* regions on which handle_evacuation_failure was called
  rd_buffers,       \* the list all_completed_buffers() returned: node i holds rd_buffers[i]
  rd_head,          \* RedirtyLoggedCardsTask::_nodes
  rd_workers,       \* number of workers that run RedirtyLoggedCardsTask::do_work
  rd_pc,            \* per worker: position in RedirtyLoggedCardsTask::do_work
  rd_next,          \* per worker: the local next
  rd_node,          \* per worker: the local node
  num_dirtied,      \* per worker: RedirtyLoggedCardTableEntryClosure::_num_dirtied
  rd_work_item,     \* per worker: the count given to record_work_item
  card_table,       \* G1CardTable: per card "clean" or "dirty"
  rd_applied,       \* per node: the workers that applied their closure to it, in order
  rdcqs,            \* G1RedirtyCardsQueueSet: its list of completed buffers (nodes)
  dcq,              \* G1DirtyCardQueueSet: the completed buffers of the shared log (nodes)
  rd_stage,         \* RedirtyLoggedCardsTask: "none", "running" or "destroyed"
  hum_input,        \* per region: humongous layout, candidate flag, object kind, used bytes
  hum_phase,        \* EagerlyReclaimHumongousObjectsTask: "none", "scanning", "done",
                    \* "destroyed", or "aborted" after a failed guarantee
  hum_idx,          \* heap_region_iterate: the next region index to visit
  hum_cl,           \* G1FreeHumongousRegionClosure: its three counters
  hum_task,         \* the task's _humongous_regions_reclaimed and _bytes_freed
  hum_work_item,    \* EagerlyReclaimNumReclaimed as recorded, none before
  cm_reclaimed,     \* start regions reported to humongous_object_eagerly_reclaimed
  hum_freed,        \* regions given to free_humongous_region
  hum_set,          \* regions whose containing set is the humongous set
  humongous_count,  \* length of the heap's humongous region set
  flags,            \* the pause: should_sample, concurrent_start, resize_tlab, compiler2
  b_batch,          \* the batch that was constructed last: 0 (none), 1 or 2
  b_stage,          \* that batch: "none", "constructed", "dispatched", "destroyed"
  serial_tasks,     \* per batch: the subtasks given to add_serial_task, in order
  parallel_tasks,   \* per batch: the subtasks given to add_parallel_task, in order
  serial_log,       \* per batch: the serial do_work calls made, <<subtask, worker id>>
  b_workers,        \* the worker count given to the set_max_workers hooks
  b_pos,            \* per worker: index of the parallel subtask it runs next
  par_log,          \* the batch's parallel do_work calls, <<batch, subtask, worker id>>
  bm_claims,        \* ClearRetainedRegionBitmaps::_claimer: the regions claimed
  bm_cur,           \* per worker: steps made in the walk over the failed regions
  bm_cleared,       \* per region: the workers that called clear_bitmap_for_region on it
  sched_costs,      \* the scheduler's input: worker_cost() of each parallel subtask
  sched_avail,      \* the scheduler's input: the available workers
  sched_counts,     \* the worker count assigned to each parallel subtask
  sched_pc,         \* "idle", "ready" or "assigned"
  q_in,             \* checkCatchesAndSendQuitTo: its arguments, the target and the system
  q_pc,             \* checkCatchesAndSendQuitTo: "idle", "queried" or "returned"
  q_kiproc,         \* the SIGQUIT bits of kiproc.kp_proc.p_sigcatch and p_sigignore
  q_kills,          \* the kill(pid, SIGQUIT) calls made
  q_sent,           \* the SIGQUITs delivered to the target
  q_ret,            \* the jboolean returned
  q_exc,            \* the exception pending at return, "none" without one
  wr_in,            \* write: the byte array, off and bufLen it was called with
  wr_pc,            \* write: "idle", "fill", "call" or "returned"
  wr_off,           \* write: off
  wr_remaining,     \* write: remaining
  wr_len,           \* write: len
  wr_buf,           \* write: the first len bytes of buf
  wr_out,           \* the bytes the descriptor accepted, in order
  wr_n,             \* write: n, the result of the last write(fd, buf, len)
  wr_errno,         \* errno after the last write(fd, buf, len)
  wr_eintr,         \* the interrupted calls of the current RESTARTABLE
  wr_exc            \* the exception pending at return, "none" without one

regionVars == <<hr_type, hr_used, old_set, master_free_list, eden, cset_regions>>
taskVars   == <<claims, phase, active_workers, worker_stats>>
workerVars == <<wpc, wpos, wreg, OldSets_lock, surv_recorded, visits, failure_handled>>
heapVars   == <<summary_bytes, evacuation_info, old_plab_stats, policy>>
freeVars   == <<input, regionVars, taskVars, workerVars, heapVars>>

redirtyVars == <<rd_buffers, rd_head, rd_workers, rd_pc, rd_next, rd_node, num_dirtied,
                 rd_work_item, card_table, rd_applied, rdcqs, dcq, rd_stage>>

humVars == <<hum_input, hum_phase, hum_idx, hum_cl, hum_task, hum_work_item,
             cm_reclaimed, hum_freed, hum_set, humongous_count>>

schedVars == <<sched_costs, sched_avail, sched_counts, sched_pc>>

quitVars == <<q_in, q_pc, q_kiproc, q_kills, q_sent, q_ret, q_exc>>

writeVars == <<wr_in, wr_pc, wr_off, wr_remaining, wr_len, wr_buf, wr_out, wr_n,
               wr_errno, wr_eintr, wr_exc>>

attachVars == <<quitVars, writeVars>>

batchRunVars == <<flags, b_batch, b_stage, serial_tasks, parallel_tasks, serial_log,
                  b_workers, b_pos, par_log, bm_claims, bm_cur, bm_cleared>>

batchVars == <<flags, b_batch, b_stage, serial_tasks, parallel_tasks, serial_log,
               b_workers, b_pos, par_log, bm_claims, bm_cur, bm_cleared, schedVars,
               attachVars>>

vars == <<freeVars, redirtyVars, humVars, batchVars>>

\* ------------------------------------------------------- the pause's input
\* The kinds of region a pause can leave behind: outside the collection set
\* (old, in the old set), evacuated (young or old), failed (young or old).
\* live is HeapRegion::live_bytes(), rs is rem_set()->occupied().
RegionInputs ==
  { [in_cset |-> FALSE, failed |-> FALSE, young |-> FALSE,
     used |-> GrainBytes, live |-> GrainBytes, rs |-> 0],
    [in_cset |-> TRUE, failed |-> FALSE, young |-> TRUE,
     used |-> 2 * HeapWordSize, live |-> HeapWordSize, rs |-> 1],
    [in_cset |-> TRUE, failed |-> FALSE, young |-> FALSE,
     used |-> GrainBytes, live |-> HeapWordSize, rs |-> 2],
    [in_cset |-> TRUE, failed |-> TRUE, young |-> TRUE,
     used |-> GrainBytes - HeapWordSize, live |-> HeapWordSize + HeapWordSize \div 2, rs |-> 3],
    [in_cset |-> TRUE, failed |-> TRUE, young |-> FALSE,
     used |-> GrainBytes, live |-> GrainBytes, rs |-> 5] }

RECURSIVE SeqOfSet(_)
SeqOfSet(S) ==
  IF S = {} THEN <<>>
  ELSE LET m == CHOOSE x \in S : \A y \in S : x <= y
       IN <<m>> \o SeqOfSet(S \ {m})

RECURSIVE SumOver(_, _)
SumOver(S, f) ==
  IF S = {} THEN 0
  ELSE LET x == CHOOSE y \in S : TRUE
       IN f[x] + SumOver(S \ {x}, f)

CSet0 == {r \in Regions : input[r].in_cset}
Failed0 == {r \in Regions : input[r].failed}
Evacuated0 == CSet0 \ Failed0

\* ------------------------------------------------------------ FreeCSetStats
FreeCSetStats ==
  [before_used_bytes |-> 0, after_used_bytes |-> 0,
   bytes_allocated_in_old_since_last_gc |-> 0,
   failure_used_words |-> 0, failure_waste_words |-> 0,
   rs_length |-> 0, regions_freed |-> 0]

merge_stats_no_regions_freed(s, other) ==
  [before_used_bytes |-> s.before_used_bytes + other.before_used_bytes,
   after_used_bytes |-> s.after_used_bytes + other.after_used_bytes,
   bytes_allocated_in_old_since_last_gc |->
     s.bytes_allocated_in_old_since_last_gc + other.bytes_allocated_in_old_since_last_gc,
   failure_used_words |-> s.failure_used_words + other.failure_used_words,
   failure_waste_words |-> s.failure_waste_words + other.failure_waste_words,
   rs_length |-> s.rs_length + other.rs_length,
   regions_freed |-> s.regions_freed]

merge_stats(s, other) ==
  [before_used_bytes |-> s.before_used_bytes + other.before_used_bytes,
   after_used_bytes |-> s.after_used_bytes + other.after_used_bytes,
   bytes_allocated_in_old_since_last_gc |->
     s.bytes_allocated_in_old_since_last_gc + other.bytes_allocated_in_old_since_last_gc,
   failure_used_words |-> s.failure_used_words + other.failure_used_words,
   failure_waste_words |-> s.failure_waste_words + other.failure_waste_words,
   rs_length |-> s.rs_length + other.rs_length,
   regions_freed |-> s.regions_freed + other.regions_freed]

account_failed_region_always_old(s, live_bytes, used, is_young) ==
  LET used_words == live_bytes \div HeapWordSize
  IN [s EXCEPT !.failure_used_words = @ + used_words,
               !.failure_waste_words = @ + (GrainWords - used_words),
               !.after_used_bytes = @ + used,
               !.bytes_allocated_in_old_since_last_gc = @ + GrainBytes]

account_failed_region(s, live_bytes, used, is_young) ==
  LET used_words == live_bytes \div HeapWordSize
  IN [s EXCEPT !.failure_used_words = @ + used_words,
               !.failure_waste_words = @ + (GrainWords - used_words),
               !.after_used_bytes = @ + used,
               !.bytes_allocated_in_old_since_last_gc =
                  IF is_young THEN @ + GrainBytes ELSE @]

account_evacuated_region(s, used) ==
  [s EXCEPT !.before_used_bytes = @ + used,
            !.regions_freed = @ + 1]

account_rs_length(s, occupied) ==
  [s EXCEPT !.rs_length = @ + occupied]

report_summary_bytes_all(total) ==
  summary_bytes - (total.before_used_bytes + total.after_used_bytes)

\* FreeCSetStats::report: the merged totals go to the heap-wide counters.
report_summary_bytes(total) == summary_bytes - total.before_used_bytes

report_evacuation_info(total) ==
  [regions_freed |-> total.regions_freed,
   collection_set_used_before |-> total.before_used_bytes + total.after_used_bytes,
   collection_set_used_after |->
     evacuation_info.collection_set_used_after + total.after_used_bytes]

report_old_plab_stats(total) ==
  [failure_used |-> old_plab_stats.failure_used + total.failure_used_words,
   failure_waste |-> old_plab_stats.failure_waste + total.failure_waste_words]

report_policy(total) ==
  [allocated_bytes_in_old |->
     policy.allocated_bytes_in_old + total.bytes_allocated_in_old_since_last_gc,
   rs_length |-> total.rs_length,
   cset_regions_freed |-> policy.cset_regions_freed + 1]

\* FreeCollectionSetTask::report_statistics: merge slots 0 .. _active_workers - 1.
RECURSIVE merge_workers(_, _)
merge_workers(total, worker) ==
  IF worker < active_workers
  THEN merge_workers(merge_stats(total, worker_stats[worker]), worker + 1)
  ELSE total

report_statistics == merge_workers(FreeCSetStats, 0)

\* ------------------------------------------------- collaborators of the task
\* G1CollectedHeap::par_iterate_regions_array: where a worker starts.
start_pos(worker_id) == (worker_id * Len(cset_regions)) \div active_workers

\* HeapRegionClaimer::claim_region: an atomic compare-and-swap on the claim.
claim_region(r) == ~claims[r]

\* do_work hands its own _claimer to the iteration.
cset_claim_none(r) == TRUE

cset_claim(r) == claim_region(r)

\* Batch join: every worker the task was given has returned from do_work.
AllWorkersJoined ==
  \A w \in Workers : w < active_workers => wpc[w] = "done"

evac_failed_none(r) == FALSE

\* _evac_failure_regions->contains(r->hrm_index())
evac_failed(r) == input[r].failed

\* r->is_young()
is_young(r) == hr_type[r] = "Young"

\* --------------------------------------------------- FreeCollectionSetTask
InitFreeRegions ==
  /\ hr_type = [r \in Regions |-> IF input[r].young THEN "Young" ELSE "Old"]
  /\ hr_used = [r \in Regions |-> input[r].used]
  /\ old_set = {r \in Regions : ~input[r].in_cset /\ hum_input[r].kind = "other"}
  /\ master_free_list = {}
  /\ eden = {r \in Regions : input[r].in_cset /\ input[r].young}
  /\ cset_regions = SeqOfSet({r \in Regions : input[r].in_cset})
  /\ claims = [r \in Regions |-> FALSE]
  /\ phase = "none"
  /\ active_workers = 0
  /\ worker_stats = [w \in {} |-> FreeCSetStats]
  /\ wpc = [w \in Workers |-> "idle"]
  /\ wpos = [w \in Workers |-> 0]
  /\ wreg = [w \in Workers |-> NoRegion]
  /\ OldSets_lock = NoWorker
  /\ evacuation_info = [regions_freed |-> 0, collection_set_used_before |-> 0,
                        collection_set_used_after |-> 0]
  /\ old_plab_stats = [failure_used |-> 0, failure_waste |-> 0]
  /\ policy = [allocated_bytes_in_old |-> 0, rs_length |-> 0, cset_regions_freed |-> 0]
  /\ surv_recorded = {}
  /\ visits = [r \in Regions |-> <<>>]
  /\ failure_handled = {}

InitFree ==
  /\ InitFreeRegions
  /\ summary_bytes = SumOver(Regions, [r \in Regions |-> input[r].used])

clear_eden_skipped == eden

\* _g1h->clear_eden(), called by the constructor
clear_eden == {}

\* FreeCollectionSetTask::FreeCollectionSetTask
Construct ==
  /\ phase = "none"
  /\ phase' = "constructed"
  /\ eden' = clear_eden
  /\ UNCHANGED <<input, hr_type, hr_used, old_set, master_free_list, cset_regions,
                 claims, active_workers, worker_stats, workerVars, heapVars>>
  /\ UNCHANGED <<redirtyVars, humVars, batchVars>>

new_worker_stats_one_short(max_workers) ==
  [w \in 0..(max_workers - 2) |-> FreeCSetStats]

\* NEW_C_HEAP_ARRAY(FreeCSetStats, max_workers, mtGC) and the placement news
new_worker_stats(max_workers) ==
  [w \in 0..(max_workers - 1) |-> FreeCSetStats]

\* FreeCollectionSetTask::set_max_workers
set_max_workers(max_workers) ==
  /\ phase = "constructed"
  /\ phase' = "configured"
  /\ active_workers' = max_workers
  /\ worker_stats' = new_worker_stats(max_workers)
  /\ claims' = [r \in Regions |-> FALSE]
  /\ UNCHANGED <<input, regionVars, workerVars, heapVars>>
  /\ UNCHANGED <<redirtyVars, humVars, batchVars>>

\* The position after cur_pos in the cyclic walk, and whether the walk is over.
NextPos(w) == (wpos[w] + 1) % Len(cset_regions)

Advance(w) ==
  /\ wpos' = [wpos EXCEPT ![w] = NextPos(w)]
  /\ wpc' = [wpc EXCEPT ![w] = IF NextPos(w) = start_pos(w) THEN "done" ELSE "iter"]
  /\ wreg' = [wreg EXCEPT ![w] = NoRegion]

\* FreeCollectionSetTask::do_work, entry: the closure is built and the walk starts.
do_work(w) ==
  /\ phase = "configured"
  /\ w < active_workers
  /\ wpc[w] = "idle"
  /\ wpos' = [wpos EXCEPT ![w] = IF Len(cset_regions) = 0 THEN 0 ELSE start_pos(w)]
  /\ wpc' = [wpc EXCEPT ![w] = IF Len(cset_regions) = 0 THEN "done" ELSE "iter"]
  /\ UNCHANGED <<input, regionVars, taskVars, wreg, OldSets_lock, surv_recorded,
                 visits, failure_handled, heapVars>>
  /\ UNCHANGED <<redirtyVars, humVars, batchVars>>

\* collection_set_par_iterate_all: one step of the walk, claiming the region.
claim_step(w) ==
  /\ wpc[w] = "iter"
  /\ LET r == cset_regions[wpos[w] + 1]
     IN IF cset_claim(r)
        THEN /\ claims' = [claims EXCEPT ![r] = TRUE]
             /\ wreg' = [wreg EXCEPT ![w] = r]
             /\ wpc' = [wpc EXCEPT ![w] = "visit"]
             /\ UNCHANGED wpos
        ELSE /\ Advance(w)
             /\ UNCHANGED claims
  /\ UNCHANGED <<input, regionVars, phase, active_workers, worker_stats,
                 OldSets_lock, surv_recorded, visits, failure_handled, heapVars>>
  /\ UNCHANGED <<redirtyVars, humVars, batchVars>>

\* FreeCSetClosure::handle_failed_region up to the lock: the region's new type.
handle_evacuation_failure(r) == [hr_type EXCEPT ![r] = "Old"]

\* G1CollectedHeap::free_region(r, nullptr): the region is reset; no free list is given.
free_region_type(r) == [hr_type EXCEPT ![r] = "Free"]
free_region_used(r) == [hr_used EXCEPT ![r] = 0]

free_region_free_list_added(r) == master_free_list \cup {r}

\* free_region(r, nullptr): the free list argument is null, the region is added
\* to no list.
free_region_free_list(r) == master_free_list

evacuated_summary_bytes_direct(r) == summary_bytes - hr_used[r]

\* handle_evacuated_region: the usage goes to the worker's stats, the heap's
\* summary bytes stay as they are.
evacuated_summary_bytes(r) == summary_bytes

\* FreeCSetClosure::do_heap_region
do_heap_region(w) ==
  /\ wpc[w] = "visit"
  /\ LET r == wreg[w]
         s0 == account_rs_length(worker_stats[w], input[r].rs)
     IN /\ visits' = [visits EXCEPT ![r] = Append(@, w)]
        /\ surv_recorded' = IF is_young(r) THEN surv_recorded \cup {r} ELSE surv_recorded
        /\ IF evac_failed(r)
           THEN /\ worker_stats' = [worker_stats EXCEPT ![w] =
                      account_failed_region(s0, input[r].live, hr_used[r], is_young(r))]
                /\ hr_type' = handle_evacuation_failure(r)
                /\ failure_handled' = failure_handled \cup {r}
                /\ wpc' = [wpc EXCEPT ![w] = "lock"]
                /\ UNCHANGED <<hr_used, wpos, wreg, summary_bytes, master_free_list>>
           ELSE /\ worker_stats' = [worker_stats EXCEPT ![w] =
                      account_evacuated_region(s0, hr_used[r])]
                /\ hr_type' = free_region_type(r)
                /\ hr_used' = free_region_used(r)
                /\ master_free_list' = free_region_free_list(r)
                /\ summary_bytes' = evacuated_summary_bytes(r)
                /\ Advance(w)
                /\ UNCHANGED failure_handled
  /\ UNCHANGED <<input, old_set, eden, cset_regions, claims, phase,
                 active_workers, OldSets_lock, evacuation_info, old_plab_stats, policy>>
  /\ UNCHANGED <<redirtyVars, humVars, batchVars>>

OldSets_lock_unchecked == TRUE

\* Mutex::lock: the lock is taken when no worker owns it
OldSets_lock_free == OldSets_lock = NoWorker

\* MutexLocker x(OldSets_lock, ...)
lock_old_sets(w) ==
  /\ wpc[w] = "lock"
  /\ OldSets_lock_free
  /\ OldSets_lock' = w
  /\ wpc' = [wpc EXCEPT ![w] = "locked"]
  /\ UNCHANGED <<input, regionVars, taskVars, wpos, wreg, surv_recorded, visits,
                 failure_handled, heapVars>>
  /\ UNCHANGED <<redirtyVars, humVars, batchVars>>

old_set_add_dropped(r) == old_set

\* _g1h->old_set_add(r)
old_set_add(r) == old_set \cup {r}

\* handle_failed_region, under the lock; the lock is released at the end of the scope.
add_failed_to_old_set(w) ==
  /\ wpc[w] = "locked"
  /\ OldSets_lock = w
  /\ old_set' = old_set_add(wreg[w])
  /\ OldSets_lock' = NoWorker
  /\ Advance(w)
  /\ UNCHANGED <<input, hr_type, hr_used, master_free_list, eden, cset_regions,
                 taskVars, surv_recorded, visits, failure_handled, heapVars>>
  /\ UNCHANGED <<redirtyVars, humVars, batchVars>>

\* G1CollectedHeap::clear_collection_set
clear_collection_set == <<>>

\* FreeCollectionSetTask::~FreeCollectionSetTask
Destroy ==
  /\ phase = "configured"
  /\ AllWorkersJoined
  /\ LET total == report_statistics
     IN /\ summary_bytes' = report_summary_bytes(total)
        /\ evacuation_info' = report_evacuation_info(total)
        /\ old_plab_stats' = report_old_plab_stats(total)
        /\ policy' = report_policy(total)
  /\ worker_stats' = [w \in {} |-> FreeCSetStats]
  /\ cset_regions' = clear_collection_set
  /\ phase' = "destroyed"
  /\ UNCHANGED <<input, hr_type, hr_used, old_set, master_free_list, eden, claims,
                 active_workers, workerVars>>
  /\ UNCHANGED <<redirtyVars, humVars, batchVars>>

\* --------------------------------------------------- RedirtyLoggedCardsTask
\* Cards of the card table; a region spans CardsPerRegion of them.
CardsPerRegion == GrainWords \div 2
Cards == 1..(CardsPerRegion * MaxRegions)
MaxNodes == MaxWorkers + 1
FirstCard(r) == (r - 1) * CardsPerRegion + 1
LastCard(r) == r * CardsPerRegion

\* The cards logged in the buffer of node n: two cards of one region and one
\* card of the next region (which the next node logs again).
Buffer(n) ==
  LET r1 == ((n - 1) % MaxRegions) + 1
      r2 == (n % MaxRegions) + 1
  IN <<FirstCard(r1), LastCard(r1), FirstCard(r2)>>

\* The null BufferNode*.
NoNode == MaxNodes + 1

\* BufferNode::next()
node_next(n) == IF n < Len(rd_buffers) THEN n + 1 ELSE NoNode

\* RedirtyLoggedCardTableEntryClosure::region_for_card
region_for_card(c) == ((c - 1) \div CardsPerRegion) + 1

\* _g1h->is_in_cset(hr): the region attribute, which the cleanup does not change.
is_in_cset(r) == input[r].in_cset

will_become_free_if_already_freed(r) == hr_type[r] = "Free"

will_become_free_never(r) == FALSE

will_become_free_any_cset(r) == is_in_cset(r)

\* RedirtyLoggedCardTableEntryClosure::will_become_free
will_become_free(r) == is_in_cset(r) /\ ~evac_failed(r)

do_card_ptr_table_toggle(ct, c) ==
  IF ~will_become_free(region_for_card(c))
  THEN [ct EXCEPT ![c] = IF @ = "dirty" THEN "clean" ELSE "dirty"]
  ELSE ct

\* RedirtyLoggedCardTableEntryClosure::do_card_ptr: the card table after it.
do_card_ptr_table(ct, c) ==
  IF ~will_become_free(region_for_card(c)) THEN [ct EXCEPT ![c] = "dirty"] ELSE ct

\* RedirtyLoggedCardTableEntryClosure::do_card_ptr: _num_dirtied after it.
do_card_ptr_count(n, c) ==
  IF ~will_become_free(region_for_card(c)) THEN n + 1 ELSE n

\* G1CardTableEntryClosure::apply_to_buffer: do_card_ptr on every card of the buffer.
RECURSIVE apply_to_buffer_table(_, _)
apply_to_buffer_table(ct, buf) ==
  IF buf = <<>> THEN ct
  ELSE apply_to_buffer_table(do_card_ptr_table(ct, Head(buf)), Tail(buf))

RECURSIVE apply_to_buffer_count(_, _)
apply_to_buffer_count(n, buf) ==
  IF buf = <<>> THEN n
  ELSE apply_to_buffer_count(do_card_ptr_count(n, Head(buf)), Tail(buf))

InitRedirtyIdle ==
  /\ rd_buffers = <<>>
  /\ rd_head = NoNode
  /\ rd_workers = 0
  /\ rd_pc = [w \in Workers |-> "idle"]
  /\ rd_next = [w \in Workers |-> NoNode]
  /\ rd_node = [w \in Workers |-> NoNode]
  /\ num_dirtied = [w \in Workers |-> 0]
  /\ rd_work_item = [w \in {} |-> 0]
  /\ card_table = [c \in Cards |-> "clean"]
  /\ rd_applied = [n \in 1..MaxNodes |-> <<>>]
  /\ rdcqs = <<>>
  /\ dcq = <<>>
  /\ rd_stage = "none"

\* RedirtyLoggedCardsTask::RedirtyLoggedCardsTask: _nodes is the head of the list.
InitRedirty ==
  /\ \E len \in 0..MaxNodes : rd_buffers = [n \in 1..len |-> Buffer(n)]
  /\ rd_head = IF Len(rd_buffers) = 0 THEN NoNode ELSE 1
  /\ rd_workers \in 1..MaxWorkers
  /\ rd_pc = [w \in Workers |-> "idle"]
  /\ rd_next = [w \in Workers |-> NoNode]
  /\ rd_node = [w \in Workers |-> NoNode]
  /\ num_dirtied = [w \in Workers |-> 0]
  /\ rd_work_item = [w \in {} |-> 0]
  /\ card_table = [c \in Cards |-> "clean"]
  /\ rd_applied = [n \in 1..MaxNodes |-> <<>>]
  /\ rdcqs = [n \in 1..Len(rd_buffers) |-> n]
  /\ dcq = <<>>
  /\ rd_stage = "running"

\* do_work, entry: the closure is built and next = Atomic::load(&_nodes).
redirty_do_work(w) ==
  /\ w < rd_workers
  /\ rd_pc[w] = "idle"
  /\ rd_next' = [rd_next EXCEPT ![w] = rd_head]
  /\ rd_pc' = [rd_pc EXCEPT ![w] = "loop"]
  /\ UNCHANGED <<rd_buffers, rd_head, rd_workers, rd_node, num_dirtied, rd_work_item,
                 card_table, rd_applied, rdcqs, dcq, rd_stage>>
  /\ UNCHANGED <<freeVars, humVars, batchVars>>

cmpxchg_never(dest, compare_value, exchange_value) == dest

\* Atomic::cmpxchg: the value of dest after it (it returns the value before).
cmpxchg(dest, compare_value, exchange_value) ==
  IF dest = compare_value THEN exchange_value ELSE dest

claimed_unchecked(w) == TRUE

\* if (next == node): the compare-and-swap returned the node, so it was claimed.
claimed(w) == rd_head = rd_next[w]

\* do_work, the loop test and Atomic::cmpxchg(&_nodes, node, node->next()).
redirty_cmpxchg(w) ==
  /\ rd_pc[w] = "loop"
  /\ IF rd_next[w] = NoNode
     THEN /\ rd_work_item' = (w :> num_dirtied[w]) @@ rd_work_item
          /\ rd_pc' = [rd_pc EXCEPT ![w] = "done"]
          /\ UNCHANGED <<rd_head, rd_next, rd_node>>
     ELSE /\ rd_node' = [rd_node EXCEPT ![w] = rd_next[w]]
          /\ rd_head' = cmpxchg(rd_head, rd_next[w], node_next(rd_next[w]))
          /\ rd_next' = [rd_next EXCEPT ![w] = rd_head]
          /\ rd_pc' = [rd_pc EXCEPT ![w] = IF claimed(w) THEN "apply" ELSE "loop"]
          /\ UNCHANGED rd_work_item
  /\ UNCHANGED <<rd_buffers, rd_workers, num_dirtied, card_table, rd_applied,
                 rdcqs, dcq, rd_stage>>
  /\ UNCHANGED <<freeVars, humVars, batchVars>>

\* do_work: cl.apply_to_buffer(node, ...); next = node->next().
redirty_apply(w) ==
  /\ rd_pc[w] = "apply"
  /\ card_table' = apply_to_buffer_table(card_table, rd_buffers[rd_node[w]])
  /\ num_dirtied' = [num_dirtied EXCEPT ![w] =
                       apply_to_buffer_count(@, rd_buffers[rd_node[w]])]
  /\ rd_applied' = [rd_applied EXCEPT ![rd_node[w]] = Append(@, w)]
  /\ rd_next' = [rd_next EXCEPT ![w] = node_next(rd_node[w])]
  /\ rd_pc' = [rd_pc EXCEPT ![w] = "loop"]
  /\ UNCHANGED <<rd_buffers, rd_head, rd_workers, rd_node, rd_work_item,
                 rdcqs, dcq, rd_stage>>
  /\ UNCHANGED <<freeVars, humVars, batchVars>>

\* The batch joined the workers of the subtask: each one returned from do_work.
RedirtyJoined == \A w \in Workers : w < rd_workers => rd_pc[w] = "done"

\* The nodes from a head to the end of the list.
NodesFrom(head) == [i \in 1..(Len(rd_buffers) + 1 - head) |-> head + i - 1]

merge_bufferlists_undrained(log, src) == log \o NodesFrom(rd_head)

\* G1DirtyCardQueueSet::merge_bufferlists: the log after it took all the
\* completed buffers of the source.
merge_bufferlists(log, src) == log \o src

\* G1RedirtyCardsQueueSet::verify_empty
verify_empty == rdcqs = <<>>

\* RedirtyLoggedCardsTask::~RedirtyLoggedCardsTask
redirty_destroy ==
  /\ rd_stage = "running"
  /\ RedirtyJoined
  /\ dcq' = merge_bufferlists(dcq, rdcqs)
  /\ rdcqs' = <<>>
  /\ rd_stage' = "destroyed"
  /\ UNCHANGED <<rd_buffers, rd_head, rd_workers, rd_pc, rd_next, rd_node, num_dirtied,
                 rd_work_item, card_table, rd_applied>>
  /\ UNCHANGED <<freeVars, humVars, batchVars>>

\* ----------------------------------- EagerlyReclaimHumongousObjectsTask
\* Heap layouts: a continuation region follows a start or a continuation region;
\* only a start region carries a candidate flag and an object.
HumLayouts ==
  { h \in [Regions -> [kind : {"start", "cont", "other"},
                       candidate : BOOLEAN, type_array : BOOLEAN]] :
      \A r \in Regions :
        /\ h[r].kind = "cont" => (r > 1 /\ h[r - 1].kind \in {"start", "cont"})
        /\ h[r].kind # "start" => (~h[r].candidate /\ ~h[r].type_array) }

\* humongous_obj_regions_iterate: the start region and its continuation regions.
RECURSIVE obj_regions_from(_, _)
obj_regions_from(h, r) ==
  IF r <= MaxRegions /\ h[r].kind = "cont"
  THEN {r} \cup obj_regions_from(h, r + 1)
  ELSE {}

humongous_obj_regions(r) == {r} \cup obj_regions_from(hum_input, r + 1)

\* r->used(): the last region of an object is partly used, the others are full.
hum_used(r) ==
  IF hum_input[r].kind = "other" THEN GrainBytes
  ELSE IF r < MaxRegions /\ hum_input[r + 1].kind = "cont" THEN GrainBytes
  ELSE 2 * HeapWordSize

is_reclaimable_any_start(region_idx) == hum_input[region_idx].kind = "start"

\* G1FreeHumongousRegionClosure::is_reclaimable
is_reclaimable(region_idx) == hum_input[region_idx].candidate

is_typeArray_unchecked(region_idx) == TRUE

\* obj->is_typeArray() of the object at r->bottom()
is_typeArray(region_idx) == hum_input[region_idx].type_array

\* G1CollectedHeap::has_humongous_reclaim_candidates
has_humongous_reclaim_candidates == \E r \in Regions : hum_input[r].candidate

G1FreeHumongousRegionClosure ==
  [humongous_objects_reclaimed |-> 0, humongous_regions_reclaimed |-> 0, freed_bytes |-> 0]

InitHumIdle ==
  /\ hum_input = [r \in Regions |-> [kind |-> "other", candidate |-> FALSE,
                                      type_array |-> FALSE]]
  /\ hum_phase = "none"
  /\ hum_idx = 1
  /\ hum_cl = G1FreeHumongousRegionClosure
  /\ hum_task = [humongous_regions_reclaimed |-> 0, bytes_freed |-> 0]
  /\ hum_work_item = <<>>
  /\ cm_reclaimed = {}
  /\ hum_freed = {}
  /\ hum_set = {}
  /\ humongous_count = 0

InitHum ==
  /\ hum_input \in HumLayouts
  /\ hum_phase = "none"
  /\ hum_idx = 1
  /\ hum_cl = G1FreeHumongousRegionClosure
  /\ hum_task = [humongous_regions_reclaimed |-> 0, bytes_freed |-> 0]
  /\ hum_work_item = <<>>
  /\ cm_reclaimed = {}
  /\ hum_freed = {}
  /\ hum_set = {r \in Regions : hum_input[r].kind # "other"}
  /\ humongous_count = Cardinality({r \in Regions : hum_input[r].kind # "other"})

\* EagerlyReclaimHumongousObjectsTask::do_work, entry: the task exists only if the
\* heap has reclaim candidates; the closure is built and the scan starts.
hum_do_work ==
  /\ hum_phase = "none"
  /\ has_humongous_reclaim_candidates
  /\ hum_phase' = "scanning"
  /\ hum_idx' = 1
  /\ hum_cl' = G1FreeHumongousRegionClosure
  /\ UNCHANGED <<hum_input, hum_task, hum_work_item, cm_reclaimed, hum_freed, hum_set,
                 humongous_count>>
  /\ UNCHANGED <<freeVars, redirtyVars, batchVars>>

regions_reclaimed_one_per_object(rs) == 1

\* _humongous_regions_reclaimed++ in free_humongous_region, once per region of the object
regions_reclaimed(rs) == Cardinality(rs)

\* G1FreeHumongousRegionClosure::do_heap_region_index on the next region index.
do_heap_region_index ==
  /\ hum_phase = "scanning"
  /\ hum_idx <= MaxRegions
  /\ IF ~is_reclaimable(hum_idx)
     THEN /\ hum_idx' = hum_idx + 1
          /\ UNCHANGED <<hum_phase, hum_cl, cm_reclaimed, hum_freed, hum_set>>
     ELSE IF ~is_typeArray(hum_idx)
     THEN /\ hum_phase' = "aborted"
          /\ UNCHANGED <<hum_idx, hum_cl, cm_reclaimed, hum_freed, hum_set>>
     ELSE LET rs == humongous_obj_regions(hum_idx)
          IN /\ cm_reclaimed' = cm_reclaimed \cup {hum_idx}
             /\ hum_cl' =
                  [humongous_objects_reclaimed |-> hum_cl.humongous_objects_reclaimed + 1,
                   humongous_regions_reclaimed |->
                     hum_cl.humongous_regions_reclaimed + regions_reclaimed(rs),
                   freed_bytes |->
                     hum_cl.freed_bytes + SumOver(rs, [r \in Regions |-> hum_used(r)])]
             /\ hum_set' = hum_set \ rs
             /\ hum_freed' = hum_freed \cup rs
             /\ hum_idx' = hum_idx + 1
             /\ UNCHANGED hum_phase
  /\ UNCHANGED <<hum_input, hum_task, hum_work_item, humongous_count>>
  /\ UNCHANGED <<freeVars, redirtyVars, batchVars>>

\* EagerlyReclaimHumongousObjectsTask::do_work, after heap_region_iterate.
hum_record ==
  /\ hum_phase = "scanning"
  /\ hum_idx > MaxRegions
  /\ hum_work_item' = <<hum_cl.humongous_objects_reclaimed>>
  /\ hum_task' = [humongous_regions_reclaimed |-> hum_cl.humongous_regions_reclaimed,
                  bytes_freed |-> hum_cl.freed_bytes]
  /\ hum_phase' = "done"
  /\ UNCHANGED <<hum_input, hum_idx, hum_cl, cm_reclaimed, hum_freed, hum_set,
                 humongous_count>>
  /\ UNCHANGED <<freeVars, redirtyVars, batchVars>>

\* EagerlyReclaimHumongousObjectsTask::~EagerlyReclaimHumongousObjectsTask
hum_destroy ==
  /\ hum_phase = "done"
  /\ humongous_count' = humongous_count - hum_task.humongous_regions_reclaimed
  /\ summary_bytes' = summary_bytes - hum_task.bytes_freed
  /\ hum_phase' = "destroyed"
  /\ UNCHANGED <<hum_input, hum_idx, hum_cl, hum_task, hum_work_item, cm_reclaimed,
                 hum_freed, hum_set>>
  /\ UNCHANGED <<input, regionVars, taskVars, workerVars, evacuation_info,
                 old_plab_stats, policy, redirtyVars, batchVars>>

\* ------------------------------------- VirtualMachineImpl.c (libattach)
\* What a call of checkCatchesAndSendQuitTo meets: its throwIfNotReady
\* argument, whether the target process exists and whether it catches and
\* ignores SIGQUIT, whether sysctl and kill succeed, and what kiproc holds when
\* sysctl filled nothing in (no such process): kiproc is not initialized.
QuitInputs ==
  {i \in [throwIfNotReady : BOOLEAN, exists : BOOLEAN, caught : BOOLEAN,
          ignored : BOOLEAN, sysctl_ok : BOOLEAN, kill_ok : BOOLEAN,
          stale_caught : BOOLEAN, stale_ignored : BOOLEAN] :
     /\ i.exists => (i.stale_caught = i.caught /\ i.stale_ignored = i.ignored)
     /\ ~i.exists => (~i.caught /\ ~i.ignored /\ ~i.kill_ok)}

NoQuitInput ==
  [throwIfNotReady |-> FALSE, exists |-> FALSE, caught |-> FALSE, ignored |-> FALSE,
   sysctl_ok |-> FALSE, kill_ok |-> FALSE, stale_caught |-> FALSE,
   stale_ignored |-> FALSE]

InitQuitRun ==
  /\ q_pc = "idle"
  /\ q_kiproc = [caught |-> FALSE, ignored |-> FALSE]
  /\ q_kills = 0
  /\ q_sent = 0
  /\ q_ret = FALSE
  /\ q_exc = "none"

InitQuitIdle ==
  /\ q_in = NoQuitInput
  /\ InitQuitRun

InitQuit ==
  /\ q_in \in QuitInputs
  /\ InitQuitRun

InitWriteRun ==
  /\ wr_pc = "idle"
  /\ wr_off = 0
  /\ wr_remaining = 0
  /\ wr_len = 0
  /\ wr_buf = <<>>
  /\ wr_out = <<>>
  /\ wr_n = 0
  /\ wr_errno = "none"
  /\ wr_eintr = 0
  /\ wr_exc = "none"

InitWriteIdle ==
  /\ wr_in = [ba |-> <<>>, off |-> 0, bufLen |-> 0]
  /\ InitWriteRun

\* The bytes of the array: distinct, so that a byte tells its index.
ByteArray == [i \in 1..(MaxOff + MaxBufLen) |-> i % 256]

\* The lengths written: none, one byte, and one byte less than a full buf and
\* more.
BufLens == {l \in 0..MaxBufLen : l <= 1 \/ l >= BufSize - 1}

\* The calls write(fd, ba, off, bufLen) with off and bufLen inside the array.
InitWrite ==
  /\ \E off \in {0, MaxOff}, bufLen \in BufLens :
       wr_in = [ba |-> ByteArray, off |-> off, bufLen |-> bufLen]
  /\ InitWriteRun

InitAttachIdle ==
  /\ InitQuitIdle
  /\ InitWriteIdle

\* checkCatchesAndSendQuitTo: the sysctl call and, when it fails, the return.
quit_sysctl ==
  /\ q_pc = "idle"
  /\ IF q_in.sysctl_ok
     THEN /\ q_kiproc' = [caught |-> q_in.stale_caught, ignored |-> q_in.stale_ignored]
          /\ q_pc' = "queried"
          /\ UNCHANGED <<q_ret, q_exc>>
     ELSE /\ q_exc' = "IOException"
          /\ q_ret' = FALSE
          /\ q_pc' = "returned"
          /\ UNCHANGED q_kiproc
  /\ UNCHANGED <<q_in, q_kills, q_sent, writeVars>>
  /\ UNCHANGED <<freeVars, redirtyVars, humVars, batchRunVars, schedVars>>

ready_if_caught(caught, ignored) == caught

\* if (caught && !ignored)
ready(caught, ignored) == caught /\ ~ignored

\* kill((pid_t)pid, SIGQUIT) != 0: it fails when there is no such process.
kill_failed == ~q_in.exists \/ ~q_in.kill_ok

\* checkCatchesAndSendQuitTo, after a successful sysctl.
quit_signal ==
  /\ q_pc = "queried"
  /\ IF ready(q_kiproc.caught, q_kiproc.ignored)
     THEN /\ q_kills' = q_kills + 1
          /\ IF kill_failed
             THEN /\ q_exc' = "IOException"
                  /\ q_ret' = FALSE
                  /\ UNCHANGED q_sent
             ELSE /\ q_sent' = q_sent + 1
                  /\ q_ret' = TRUE
                  /\ UNCHANGED q_exc
     ELSE /\ q_exc' = IF q_in.throwIfNotReady THEN "AttachNotSupportedException"
                                               ELSE "none"
          /\ q_ret' = FALSE
          /\ UNCHANGED <<q_kills, q_sent>>
  /\ q_pc' = "returned"
  /\ UNCHANGED <<q_in, q_kiproc, writeVars>>
  /\ UNCHANGED <<freeVars, redirtyVars, humVars, batchRunVars, schedVars>>

otherVars == <<freeVars, redirtyVars, humVars, batchRunVars, schedVars, quitVars>>

\* size_t remaining = bufLen; do {
write_enter ==
  /\ wr_pc = "idle"
  /\ wr_remaining' = wr_in.bufLen
  /\ wr_off' = wr_in.off
  /\ wr_pc' = "fill"
  /\ UNCHANGED <<wr_in, wr_len, wr_buf, wr_out, wr_n, wr_errno, wr_eintr, wr_exc>>
  /\ UNCHANGED otherVars

Min(a, b) == IF a < b THEN a ELSE b

GetByteArrayRegion_from_start(array, start, len) == SubSeq(array, 1, len)

\* GetByteArrayRegion(env, ba, off, len, buf): elements off .. off+len-1,
\* counted from 0, of the array.
GetByteArrayRegion(array, start, len) == SubSeq(array, start + 1, start + len)

\* The head of the loop body: len and the copy into buf.
write_fill ==
  /\ wr_pc = "fill"
  /\ wr_len' = Min(BufSize, wr_remaining)
  /\ wr_buf' = GetByteArrayRegion(wr_in.ba, wr_off, wr_len')
  /\ wr_pc' = "call"
  /\ UNCHANGED <<wr_in, wr_off, wr_remaining, wr_out, wr_n, wr_errno, wr_eintr, wr_exc>>
  /\ UNCHANGED otherVars

\* What write(fd, buf, len) can give: the number of bytes accepted (none, one,
\* all but one or all of them), which leaves errno alone, or -1 with errno set.
WriteResults(len) ==
  {[n |-> n, errno |-> wr_errno] : n \in {0, 1, len - 1, len} \cap 0..len}
    \cup {[n |-> -1, errno |-> e] : e \in {"EINTR", "EIO"}}

\* RESTARTABLE: write was interrupted and is called again.
write_restart ==
  /\ wr_pc = "call"
  /\ wr_eintr < MaxEintr
  /\ wr_n' = -1
  /\ wr_errno' = "EINTR"
  /\ wr_eintr' = wr_eintr + 1
  /\ UNCHANGED <<wr_in, wr_pc, wr_off, wr_remaining, wr_len, wr_buf, wr_out, wr_exc>>
  /\ UNCHANGED otherVars

\* RESTARTABLE leaves with a result other than EINTR; the rest of the loop
\* body and the loop test.
write_result ==
  /\ wr_pc = "call"
  /\ \E res \in WriteResults(wr_len) :
       /\ ~(res.n = -1 /\ res.errno = "EINTR")
       /\ wr_n' = res.n
       /\ wr_errno' = res.errno
       /\ IF res.n > 0
          THEN /\ wr_out' = wr_out \o SubSeq(wr_buf, 1, res.n)
               /\ wr_off' = wr_off + res.n
               /\ wr_remaining' = wr_remaining - res.n
               /\ wr_pc' = IF wr_remaining' > 0 THEN "fill" ELSE "returned"
               /\ UNCHANGED wr_exc
          ELSE /\ wr_exc' = "IOException"
               /\ wr_pc' = "returned"
               /\ UNCHANGED <<wr_out, wr_off, wr_remaining>>
  /\ wr_eintr' = 0
  /\ UNCHANGED <<wr_in, wr_len, wr_buf>>
  /\ UNCHANGED otherVars

\* ------------------------------------------------------ the two batches
\* Which subtasks each batch constructor registers, and how a batch runs them:
\* the serial subtasks, then the hooks, then the parallel subtasks, then the
\* teardown. A subtask's own work is one step here (FreeCollectionSet,
\* RedirtyLoggedCards and EagerlyReclaimHumongousObjects have their own
\* specifications), except the work of ClearRetainedRegionBitmaps.
Batches == 1..2

\* evac_failure_regions->evacuation_failed()
evacuation_failed == Failed0 # {}

Task1_serial_recalculate_first ==
  <<"RecalculateUsed", "MergePss">>
    \o (IF flags.should_sample THEN <<"SampleCollectionSetCandidates">> ELSE <<>>)

\* G1PostEvacuateCollectionSetCleanupTask1: the add_serial_task calls, in order
Task1_serial ==
  <<"MergePss", "RecalculateUsed">>
    \o (IF flags.should_sample THEN <<"SampleCollectionSetCandidates">> ELSE <<>>)

Task1_parallel_always_restore ==
  <<"CleanupAfterScanHeapRoots", "RestoreRetainedRegions">>

\* G1PostEvacuateCollectionSetCleanupTask1: the add_parallel_task calls, in order
Task1_parallel ==
  <<"CleanupAfterScanHeapRoots">>
    \o (IF evacuation_failed THEN <<"RestoreRetainedRegions">> ELSE <<>>)

Task2_serial_always_reclaim ==
  (IF flags.compiler2 THEN <<"UpdateDerivedPointers">> ELSE <<>>)
    \o <<"EagerlyReclaimHumongousObjects">>

\* G1PostEvacuateCollectionSetCleanupTask2: the add_serial_task calls, in order
Task2_serial ==
  (IF flags.compiler2 THEN <<"UpdateDerivedPointers">> ELSE <<>>)
    \o (IF has_humongous_reclaim_candidates
        THEN <<"EagerlyReclaimHumongousObjects">> ELSE <<>>)

Task2_parallel_clear_in_concurrent_start ==
  (IF evacuation_failed
   THEN <<"RestorePreservedMarks", "ClearRetainedRegionBitmaps">>
   ELSE <<>>)
    \o <<"RedirtyLoggedCards">>
    \o (IF flags.resize_tlab THEN <<"ResizeThreadLABs">> ELSE <<>>)
    \o <<"FreeCollectionSet">>

\* G1PostEvacuateCollectionSetCleanupTask2: the add_parallel_task calls, in order
Task2_parallel ==
  (IF evacuation_failed
   THEN <<"RestorePreservedMarks">>
          \o (IF ~flags.concurrent_start
              THEN <<"ClearRetainedRegionBitmaps">> ELSE <<>>)
   ELSE <<>>)
    \o <<"RedirtyLoggedCards">>
    \o (IF flags.resize_tlab THEN <<"ResizeThreadLABs">> ELSE <<>>)
    \o <<"FreeCollectionSet">>

InitBatchRun ==
  /\ b_batch = 0
  /\ b_stage = "none"
  /\ serial_tasks = [b \in Batches |-> <<>>]
  /\ parallel_tasks = [b \in Batches |-> <<>>]
  /\ serial_log = [b \in Batches |-> <<>>]
  /\ b_workers = 0
  /\ b_pos = [w \in Workers |-> 1]
  /\ par_log = {}
  /\ bm_claims = {}
  /\ bm_cur = [w \in Workers |-> 0]
  /\ bm_cleared = [r \in Regions |-> <<>>]
  /\ sched_costs = <<>>
  /\ sched_avail = 0
  /\ sched_counts = <<>>
  /\ sched_pc = "idle"
  /\ InitAttachIdle

InitBatchIdle ==
  /\ flags = [should_sample |-> FALSE, concurrent_start |-> FALSE,
              resize_tlab |-> FALSE, compiler2 |-> FALSE]
  /\ InitBatchRun

InitBatch ==
  /\ flags \in [should_sample : BOOLEAN, concurrent_start : BOOLEAN,
                resize_tlab : BOOLEAN, compiler2 : BOOLEAN]
  /\ InitBatchRun

\* G1PostEvacuateCollectionSetCleanupTask1::G1PostEvacuateCollectionSetCleanupTask1
Task1_ctor ==
  /\ b_batch = 0
  /\ b_batch' = 1
  /\ b_stage' = "constructed"
  /\ serial_tasks' = [serial_tasks EXCEPT ![1] = Task1_serial]
  /\ parallel_tasks' = [parallel_tasks EXCEPT ![1] = Task1_parallel]
  /\ UNCHANGED <<flags, serial_log, b_workers, b_pos, par_log, bm_claims, bm_cur,
                 bm_cleared>>
  /\ UNCHANGED <<freeVars, redirtyVars, humVars, schedVars, attachVars>>

\* G1PostEvacuateCollectionSetCleanupTask2::G1PostEvacuateCollectionSetCleanupTask2,
\* once the first batch has run and is destroyed
Task2_ctor ==
  /\ b_batch = 1
  /\ b_stage = "destroyed"
  /\ b_batch' = 2
  /\ b_stage' = "constructed"
  /\ serial_tasks' = [serial_tasks EXCEPT ![2] = Task2_serial]
  /\ parallel_tasks' = [parallel_tasks EXCEPT ![2] = Task2_parallel]
  /\ b_workers' = 0
  /\ par_log' = {}
  /\ UNCHANGED <<flags, serial_log, b_pos, bm_claims, bm_cur, bm_cleared>>
  /\ UNCHANGED <<freeVars, redirtyVars, humVars, schedVars, attachVars>>

\* The batch's run, step 1: the next serial subtask's do_work, with worker id 0.
run_serial ==
  /\ b_stage = "constructed"
  /\ Len(serial_log[b_batch]) < Len(serial_tasks[b_batch])
  /\ serial_log' = [serial_log EXCEPT ![b_batch] =
                      Append(@, <<serial_tasks[b_batch][Len(@) + 1], 0>>)]
  /\ UNCHANGED <<flags, b_batch, b_stage, serial_tasks, parallel_tasks, b_workers,
                 b_pos, par_log, bm_claims, bm_cur, bm_cleared>>
  /\ UNCHANGED <<freeVars, redirtyVars, humVars, schedVars, attachVars>>

\* The batch's run, before dispatch: set_max_workers on every parallel subtask;
\* ClearRetainedRegionBitmaps::set_max_workers resets its claimer.
batch_set_max_workers(max_workers) ==
  /\ b_stage = "constructed"
  /\ Len(serial_log[b_batch]) = Len(serial_tasks[b_batch])
  /\ b_stage' = "dispatched"
  /\ b_workers' = max_workers
  /\ b_pos' = [w \in Workers |-> 1]
  /\ bm_claims' = {}
  /\ bm_cur' = [w \in Workers |-> 0]
  /\ UNCHANGED <<flags, b_batch, serial_tasks, parallel_tasks, serial_log, par_log,
                 bm_cleared>>
  /\ UNCHANGED <<freeVars, redirtyVars, humVars, schedVars, attachVars>>

\* The parallel subtask a worker runs next, "" when it has run them all.
CurTask(w) ==
  IF b_pos[w] <= Len(parallel_tasks[b_batch])
  THEN parallel_tasks[b_batch][b_pos[w]] ELSE ""

\* A worker's do_work on its next parallel subtask.
par_do_work(w) ==
  /\ b_stage = "dispatched"
  /\ w < b_workers
  /\ CurTask(w) \notin {"", "ClearRetainedRegionBitmaps"}
  /\ par_log' = par_log \cup {<<b_batch, CurTask(w), w>>}
  /\ b_pos' = [b_pos EXCEPT ![w] = @ + 1]
  /\ UNCHANGED <<flags, b_batch, b_stage, serial_tasks, parallel_tasks, serial_log,
                 b_workers, bm_claims, bm_cur, bm_cleared>>
  /\ UNCHANGED <<freeVars, redirtyVars, humVars, schedVars, attachVars>>

\* do_work hands the subtask's _claimer to par_iterate: the region is claimed once.
bm_claim(r) == r \notin bm_claims

\* ClearRetainedRegionBitmaps::do_work: one step of par_iterate over the failed
\* regions, from the worker's start, with the closure applied to a claimed region.
clear_bitmaps_step(w) ==
  /\ b_stage = "dispatched"
  /\ w < b_workers
  /\ CurTask(w) = "ClearRetainedRegionBitmaps"
  /\ LET failed == SeqOfSet(Failed0)
         n == Len(failed)
         r == failed[(((w * n) \div b_workers + bm_cur[w]) % n) + 1]
     IN /\ IF bm_claim(r)
           THEN /\ bm_claims' = bm_claims \cup {r}
                /\ bm_cleared' = [bm_cleared EXCEPT ![r] = Append(@, w)]
           ELSE UNCHANGED <<bm_claims, bm_cleared>>
        /\ IF bm_cur[w] + 1 = n
           THEN /\ bm_cur' = [bm_cur EXCEPT ![w] = 0]
                /\ b_pos' = [b_pos EXCEPT ![w] = @ + 1]
           ELSE /\ bm_cur' = [bm_cur EXCEPT ![w] = @ + 1]
                /\ UNCHANGED b_pos
  /\ par_log' = par_log \cup {<<b_batch, CurTask(w), w>>}
  /\ UNCHANGED <<flags, b_batch, b_stage, serial_tasks, parallel_tasks, serial_log,
                 b_workers>>
  /\ UNCHANGED <<freeVars, redirtyVars, humVars, schedVars, attachVars>>

\* The join: every worker has run every parallel subtask.
BatchJoined == \A w \in Workers : w < b_workers => CurTask(w) = ""

\* The batch's subtasks are destroyed after the join.
batch_destroy ==
  /\ b_stage = "dispatched"
  /\ BatchJoined
  /\ b_stage' = "destroyed"
  /\ UNCHANGED <<flags, b_batch, serial_tasks, parallel_tasks, serial_log, b_workers,
                 b_pos, par_log, bm_claims, bm_cur, bm_cleared>>
  /\ UNCHANGED <<freeVars, redirtyVars, humVars, schedVars, attachVars>>

\* ------------------------------------------- the scheduler's worker counts
\* Costs are whole units of work; 0 is a subtask with negligible work.
SeqSum(q) == SumOver(1..Len(q), q)

Max(a, b) == IF a >= b THEN a ELSE b

\* round(p / q), halves up, for p >= 0 and q > 0
Round(p, q) == (2 * p + q) \div (2 * q)

worker_count_no_minimum(cost, total_cost, available_workers) ==
  IF total_cost = 0 THEN 0
  ELSE Round(cost * available_workers, total_cost)

\* The target of a parallel subtask: max(1, round(cost / total_cost * available_workers))
worker_count(cost, total_cost, available_workers) ==
  IF total_cost = 0 THEN 1
  ELSE Max(1, Round(cost * available_workers, total_cost))

\* The first subtask with the largest count.
Largest(counts) ==
  CHOOSE i \in 1..Len(counts) :
    /\ \A j \in 1..Len(counts) : counts[j] <= counts[i]
    /\ \A j \in 1..(i - 1) : counts[j] < counts[i]

\* The clamp: while the counts add up to more than the available workers and a
\* count is above one, the largest count is lowered by one.
RECURSIVE clamp(_, _)
clamp(counts, available_workers) ==
  IF SeqSum(counts) <= available_workers \/ \A i \in 1..Len(counts) : counts[i] = 1
  THEN counts
  ELSE clamp([counts EXCEPT ![Largest(counts)] = @ - 1], available_workers)

InitSched ==
  /\ \E n \in 1..MaxTasks : sched_costs \in [1..n -> 0..MaxCost]
  /\ sched_avail \in 1..MaxWorkers
  /\ sched_counts = <<>>
  /\ sched_pc = "ready"

\* The scheduler assigns every parallel subtask its worker count.
assign_workers ==
  /\ sched_pc = "ready"
  /\ sched_counts' =
       clamp([i \in 1..Len(sched_costs) |->
                worker_count(sched_costs[i], SeqSum(sched_costs), sched_avail)],
             sched_avail)
  /\ sched_pc' = "assigned"
  /\ UNCHANGED <<sched_costs, sched_avail>>
  /\ UNCHANGED <<flags, b_batch, b_stage, serial_tasks, parallel_tasks, serial_log,
                 b_workers, b_pos, par_log, bm_claims, bm_cur, bm_cleared>>
  /\ UNCHANGED <<freeVars, redirtyVars, humVars, attachVars>>

\* ------------------------------------------------------------ specifications
\* Regions as the redirty closure sees them: outside the collection set,
\* evacuated, or failed.
RedirtyRegionInputs == {i \in RegionInputs : i.in_cset => i.young}

\* The FreeCollectionSet subtask, from its construction to its destruction.
Init ==
  /\ input \in [Regions -> RegionInputs]
  /\ InitHumIdle
  /\ InitFree
  /\ InitRedirtyIdle
  /\ InitBatchIdle

Next ==
  \/ Construct
  \/ \E n \in 1..MaxWorkers : set_max_workers(n)
  \/ \E w \in Workers : do_work(w)
  \/ \E w \in Workers : claim_step(w)
  \/ \E w \in Workers : do_heap_region(w)
  \/ \E w \in Workers : lock_old_sets(w)
  \/ \E w \in Workers : add_failed_to_old_set(w)
  \/ Destroy

Spec == Init /\ [][Next]_vars

\* The RedirtyLoggedCards subtask, its workers draining the buffer list.
\* Every assignment of the three kinds to regions 1..3; the kinds of further
\* regions repeat those.
RedirtyInit ==
  /\ \E kinds \in [1..3 -> RedirtyRegionInputs] :
       input = [r \in Regions |-> kinds[((r - 1) % 3) + 1]]
  /\ InitHumIdle
  /\ InitFree
  /\ InitRedirty
  /\ InitBatchIdle

RedirtyNext ==
  \/ \E w \in Workers : redirty_do_work(w)
  \/ \E w \in Workers : redirty_cmpxchg(w)
  \/ \E w \in Workers : redirty_apply(w)
  \/ redirty_destroy

RedirtySpec == RedirtyInit /\ [][RedirtyNext]_vars

\* One step of worker w in RedirtyLoggedCardsTask::do_work.
redirty_step(w) == redirty_do_work(w) \/ redirty_cmpxchg(w) \/ redirty_apply(w)

\* The redirty subtask on one heap, every worker thread scheduled fairly.
RedirtyFairInit ==
  /\ input = [r \in Regions |->
               CHOOSE i \in RedirtyRegionInputs : i.in_cset = (r % 2 = 1) /\ ~i.failed]
  /\ InitHumIdle
  /\ InitFree
  /\ InitRedirty
  /\ InitBatchIdle

RedirtyFairSpec ==
  /\ RedirtyFairInit
  /\ [][RedirtyNext]_vars
  /\ \A w \in Workers : WF_vars(redirty_step(w))
  /\ WF_vars(redirty_destroy)

\* The EagerlyReclaimHumongousObjects subtask: a serial scan of the heap. The
\* heap's used bytes start as the sum over the humongous layout's regions.
HumInit ==
  /\ input \in [Regions -> {i \in RegionInputs : ~i.in_cset}]
  /\ InitHum
  /\ InitFreeRegions
  /\ summary_bytes = SumOver(Regions, [r \in Regions |-> hum_used(r)])
  /\ InitRedirtyIdle
  /\ InitBatchIdle

HumNext ==
  \/ hum_do_work
  \/ do_heap_region_index
  \/ hum_record
  \/ hum_destroy

HumSpec == HumInit /\ [][HumNext]_vars

\* Humongous layouts of the batch runs: no humongous object, or a reclaim
\* candidate in region 1.
BatchHumLayouts ==
  {h \in HumLayouts :
     /\ \A r \in Regions : r > 1 => h[r].kind = "other"
     /\ h[1].kind = "start" => (h[1].candidate /\ h[1].type_array)}

\* The two batches of a pause, run one after the other.
BatchInit ==
  /\ \E kinds \in [1..3 -> RedirtyRegionInputs] :
       input = [r \in Regions |-> kinds[((r - 1) % 3) + 1]]
  /\ InitHum
  /\ hum_input \in BatchHumLayouts
  /\ InitFree
  /\ InitRedirtyIdle
  /\ InitBatch

BatchNext ==
  \/ Task1_ctor
  \/ Task2_ctor
  \/ run_serial
  \/ \E n \in 1..MaxWorkers : batch_set_max_workers(n)
  \/ \E w \in Workers : par_do_work(w)
  \/ \E w \in Workers : clear_bitmaps_step(w)
  \/ batch_destroy

BatchSpec == BatchInit /\ [][BatchNext]_vars

\* The used bytes of a region when the cleanup starts.
RegionUsed0(r) == IF hum_input[r].kind = "other" THEN input[r].used ELSE hum_used(r)

\* Batch 2 with its humongous reclaimer and its collection set freer: the
\* constructor builds both, the serial reclaimer runs first, then the workers
\* free the collection set, and the subtasks are destroyed after the join in
\* either order. A humongous region is not in the collection set.
Cleanup2Init ==
  /\ \E kinds \in [1..3 -> RegionInputs] :
       input = [r \in Regions |-> kinds[((r - 1) % 3) + 1]]
  /\ InitHum
  /\ hum_input \in BatchHumLayouts
  /\ \A r \in Regions : hum_input[r].kind # "other" => ~input[r].in_cset
  /\ InitFreeRegions
  /\ summary_bytes = SumOver(Regions, [r \in Regions |-> RegionUsed0(r)])
  /\ InitRedirtyIdle
  /\ InitBatchIdle

\* The serial part of the batch is over: the reclaimer returned, or was not created.
SerialDone == hum_phase = "done" \/ (hum_phase = "none" /\ ~has_humongous_reclaim_candidates)

Cleanup2Next ==
  \/ Construct
  \/ (phase = "constructed" /\ hum_do_work)
  \/ do_heap_region_index
  \/ hum_record
  \/ (SerialDone /\ \E n \in 1..MaxWorkers : set_max_workers(n))
  \/ \E w \in Workers : do_work(w)
  \/ \E w \in Workers : claim_step(w)
  \/ \E w \in Workers : do_heap_region(w)
  \/ \E w \in Workers : lock_old_sets(w)
  \/ \E w \in Workers : add_failed_to_old_set(w)
  \/ Destroy
  \/ (((phase = "configured" /\ AllWorkersJoined) \/ phase = "destroyed") /\ hum_destroy)

Cleanup2Spec == Cleanup2Init /\ [][Cleanup2Next]_vars

\* A card that evacuation can have logged: a type array holds no references, so
\* no card of a humongous type array is in a buffer.
Loggable(c) ==
  LET r == region_for_card(c)
  IN hum_input[r].kind = "other" \/ ~hum_input[r].type_array

LoggedBuffer(n) == SelectSeq(Buffer(n), Loggable)

\* Batch 2 of a pause with its three subtasks that free regions or dirty cards:
\* a region outside the collection set, which may be a humongous candidate, then
\* an evacuated and a failed region in either order; the working list has one
\* or two buffers, whose cards lie in the first three regions.
Batch2Init ==
  /\ \E kinds \in [1..3 -> RedirtyRegionInputs] :
       /\ \A i, j \in 1..3 : i # j => kinds[i] # kinds[j]
       /\ ~kinds[1].in_cset
       /\ input = [r \in Regions |-> kinds[((r - 1) % 3) + 1]]
  /\ InitHum
  /\ hum_input \in BatchHumLayouts
  /\ \A r \in Regions : hum_input[r].kind # "other" => ~input[r].in_cset
  /\ InitFreeRegions
  /\ summary_bytes = SumOver(Regions, [r \in Regions |-> RegionUsed0(r)])
  /\ \E len \in 1..2 : rd_buffers = [n \in 1..len |-> LoggedBuffer(n)]
  /\ rd_head = 1
  /\ rd_workers \in 1..MaxWorkers
  /\ rd_pc = [w \in Workers |-> "idle"]
  /\ rd_next = [w \in Workers |-> NoNode]
  /\ rd_node = [w \in Workers |-> NoNode]
  /\ num_dirtied = [w \in Workers |-> 0]
  /\ rd_work_item = [w \in {} |-> 0]
  /\ card_table = [c \in Cards |-> "clean"]
  /\ rd_applied = [n \in 1..MaxNodes |-> <<>>]
  /\ rdcqs = [n \in 1..Len(rd_buffers) |-> n]
  /\ dcq = <<>>
  /\ rd_stage = "running"
  /\ InitBatchIdle

\* Worker thread w is inside no do_work of the other subtask.
NotInRedirty(w) == rd_pc[w] \in {"idle", "done"}
NotInFree(w) == wpc[w] \in {"idle", "done"}

\* Every worker returned from every parallel subtask.
Batch2Joined == phase = "configured" /\ AllWorkersJoined /\ RedirtyJoined

\* Some subtask of the batch was destroyed, so the batch joined before.
Batch2Destroying ==
  phase = "destroyed" \/ rd_stage = "destroyed" \/ hum_phase = "destroyed"

Batch2Next ==
  \/ Construct
  \/ (phase = "constructed" /\ hum_do_work)
  \/ do_heap_region_index
  \/ hum_record
  \/ (SerialDone /\ set_max_workers(rd_workers))
  \/ \E w \in Workers : (NotInRedirty(w) /\ do_work(w))
  \/ \E w \in Workers : claim_step(w)
  \/ \E w \in Workers : do_heap_region(w)
  \/ \E w \in Workers : lock_old_sets(w)
  \/ \E w \in Workers : add_failed_to_old_set(w)
  \/ \E w \in Workers : (phase = "configured" /\ NotInFree(w) /\ redirty_do_work(w))
  \/ \E w \in Workers : redirty_cmpxchg(w)
  \/ \E w \in Workers : redirty_apply(w)
  \/ (RedirtyJoined /\ Destroy)
  \/ ((Batch2Joined \/ Batch2Destroying) /\ redirty_destroy)
  \/ ((Batch2Joined \/ Batch2Destroying) /\ hum_destroy)

Batch2Spec == Batch2Init /\ [][Batch2Next]_vars

\* The serial subtask the batch runs next, "" when none is left.
NextSerial ==
  IF b_stage = "constructed" /\ Len(serial_log[b_batch]) < Len(serial_tasks[b_batch])
  THEN serial_tasks[b_batch][Len(serial_log[b_batch]) + 1] ELSE ""

\* The two batches with the work of EagerlyReclaimHumongousObjects in steps: its
\* do_work starts when the batch reaches it in the serial list and has returned
\* when the batch logs it; it is destroyed with the second batch.
ReclaimNext ==
  \/ Task1_ctor
  \/ Task2_ctor
  \/ (NextSerial = "EagerlyReclaimHumongousObjects" /\ hum_do_work)
  \/ do_heap_region_index
  \/ hum_record
  \/ ((NextSerial = "EagerlyReclaimHumongousObjects" => hum_phase = "done") /\ run_serial)
  \/ \E n \in 1..MaxWorkers : batch_set_max_workers(n)
  \/ \E w \in Workers : par_do_work(w)
  \/ \E w \in Workers : clear_bitmaps_step(w)
  \/ batch_destroy
  \/ (b_batch = 2 /\ b_stage = "destroyed" /\ hum_destroy)

ReclaimSpec == BatchInit /\ [][ReclaimNext]_vars

\* The pause's variables when no cleanup task is modelled.
InitNoPause ==
  /\ input \in [Regions -> {i \in RegionInputs : ~i.in_cset}]
  /\ InitHumIdle
  /\ InitFree
  /\ InitRedirtyIdle
  /\ flags = [should_sample |-> FALSE, concurrent_start |-> FALSE,
              resize_tlab |-> FALSE, compiler2 |-> FALSE]
  /\ b_batch = 0
  /\ b_stage = "none"
  /\ serial_tasks = [b \in Batches |-> <<>>]
  /\ parallel_tasks = [b \in Batches |-> <<>>]
  /\ serial_log = [b \in Batches |-> <<>>]
  /\ b_workers = 0
  /\ b_pos = [w \in Workers |-> 1]
  /\ par_log = {}
  /\ bm_claims = {}
  /\ bm_cur = [w \in Workers |-> 0]
  /\ bm_cleared = [r \in Regions |-> <<>>]
  /\ sched_costs = <<>>
  /\ sched_avail = 0
  /\ sched_counts = <<>>
  /\ sched_pc = "idle"

\* One call of checkCatchesAndSendQuitTo, on every target and system outcome.
QuitInit ==
  /\ InitNoPause
  /\ InitQuit
  /\ InitWriteIdle

QuitNext == quit_sysctl \/ quit_signal

QuitSpec == QuitInit /\ [][QuitNext]_vars

\* One call of the attach write, on every range of the array and every
\* sequence of write results.
WriteInit ==
  /\ InitNoPause
  /\ InitQuitIdle
  /\ InitWrite

WriteNext == write_enter \/ write_fill \/ write_restart \/ write_result

WriteSpec == WriteInit /\ [][WriteNext]_vars

\* The scheduler's assignment of worker counts, on every cost vector and pool size.
SchedInit ==
  /\ input \in [Regions -> {i \in RegionInputs : ~i.in_cset}]
  /\ InitHumIdle
  /\ InitFree
  /\ InitRedirtyIdle
  /\ flags = [should_sample |-> FALSE, concurrent_start |-> FALSE,
              resize_tlab |-> FALSE, compiler2 |-> FALSE]
  /\ b_batch = 0
  /\ b_stage = "none"
  /\ serial_tasks = [b \in Batches |-> <<>>]
  /\ parallel_tasks = [b \in Batches |-> <<>>]
  /\ serial_log = [b \in Batches |-> <<>>]
  /\ b_workers = 0
  /\ b_pos = [w \in Workers |-> 1]
  /\ par_log = {}
  /\ bm_claims = {}
  /\ bm_cur = [w \in Workers |-> 0]
  /\ bm_cleared = [r \in Regions |-> <<>>]
  /\ InitSched
  /\ InitAttachIdle

SchedNext == assign_workers

SchedSpec == SchedInit /\ [][SchedNext]_vars

\* ------------------------------------------------------------------ claims
Range(q) == {q[i] : i \in 1..Len(q)}

Joined == phase = "configured" /\ AllWorkersJoined

Freed(r) == hr_type[r] = "Free" /\ hr_used[r] = 0

C2_VisitedExactlyOnce ==
  /\ \A r \in Regions : Len(visits[r]) <= 1
  /\ \A r \in Regions \ CSet0 : visits[r] = <<>>
  /\ (Joined \/ phase = "destroyed") => \A r \in CSet0 : Len(visits[r]) = 1

C2_Witness ==
  /\ Joined
  /\ \E r1, r2 \in CSet0 : visits[r1] = <<0>> /\ visits[r2] = <<1>>

\* The same collection set replayed by a single worker, in container order.
serial_do_heap_region(s, r) ==
  LET s0 == account_rs_length(s, input[r].rs)
  IN IF input[r].failed
     THEN account_failed_region(s0, input[r].live, input[r].used, input[r].young)
     ELSE account_evacuated_region(s0, input[r].used)

RECURSIVE SerialReplay(_, _)
SerialReplay(s, q) ==
  IF q = <<>> THEN s ELSE SerialReplay(serial_do_heap_region(s, Head(q)), Tail(q))

SerialTotals == SerialReplay(FreeCSetStats, SeqOfSet(CSet0))

\* C7: the totals merged from the per-worker slots equal the totals of a serial
\* replay of the same collection set, however the regions were partitioned, and
\* those are the totals reported at teardown.
C7_MergeEqualsSerialReplay ==
  /\ Joined => report_statistics = SerialTotals
  /\ phase = "destroyed" =>
       /\ evacuation_info.regions_freed = SerialTotals.regions_freed
       /\ evacuation_info.collection_set_used_before =
            SerialTotals.before_used_bytes + SerialTotals.after_used_bytes
       /\ policy.rs_length = SerialTotals.rs_length

C7_Witness ==
  /\ Joined
  /\ active_workers > 1
  /\ worker_stats[0].regions_freed > 0
  /\ worker_stats[1].failure_used_words > 0
  /\ worker_stats[1].regions_freed > 0

\* C8: the heap-wide counters the statistics are reported to change only in the
\* teardown step, which runs after every worker has returned from do_work, and
\* the report has been made exactly once when the task is destroyed.
C8_MergedOnceAtTeardown ==
  /\ [](policy.cset_regions_freed <= 1)
  /\ [](phase = "destroyed" => policy.cset_regions_freed = 1)
  /\ [][heapVars' # heapVars =>
          (Joined /\ phase' = "destroyed" /\ policy.cset_regions_freed = 0)]_vars

C8_Witness ==
  /\ phase = "destroyed"
  /\ active_workers > 1
  /\ policy.cset_regions_freed = 1
  /\ evacuation_info.regions_freed > 1
  /\ old_plab_stats.failure_used > 0

SummaryBytes0 == SumOver(Regions, [r \in Regions |-> input[r].used])

\* C9: after teardown the heap's used bytes are lower by exactly the used bytes
\* of the regions that evacuated successfully; the used bytes of failed regions
\* are not subtracted and are reported as collection-set-used-after.
C9_UsedBytesDecrease ==
  phase = "destroyed" =>
    /\ summary_bytes =
         SummaryBytes0 - SumOver(Evacuated0, [r \in Regions |-> input[r].used])
    /\ evacuation_info.collection_set_used_after =
         SumOver(Failed0, [r \in Regions |-> input[r].used])

C9_Witness ==
  /\ phase = "destroyed"
  /\ Evacuated0 # {}
  /\ Failed0 # {}
  /\ summary_bytes < SummaryBytes0

\* C10: each failed region adds live_bytes / HeapWordSize to failure-used-words
\* and GrainWords minus that to failure-waste-words, so the two sum to GrainWords
\* per failed region; bytes allocated into old get GrainBytes per failed region
\* that was young and nothing per failed old region.
C10_FailureWords ==
  phase = "destroyed" =>
    /\ old_plab_stats.failure_used =
         SumOver(Failed0, [r \in Regions |-> input[r].live \div HeapWordSize])
    /\ old_plab_stats.failure_waste =
         SumOver(Failed0, [r \in Regions |-> GrainWords - input[r].live \div HeapWordSize])
    /\ old_plab_stats.failure_used + old_plab_stats.failure_waste =
         GrainWords * Cardinality(Failed0)
    /\ policy.allocated_bytes_in_old =
         GrainBytes * Cardinality({r \in Failed0 : input[r].young})

C10_Witness ==
  /\ phase = "destroyed"
  /\ \E r \in Failed0 : input[r].young
  /\ \E r \in Failed0 : ~input[r].young
  /\ old_plab_stats.failure_waste > 0

RedirtyDone == \A w \in Workers : w < rd_workers => rd_pc[w] = "done"

Nodes == 1..Len(rd_buffers)

\* C3: every buffer node of the list captured at construction is applied by
\* exactly one worker exactly once: never twice at any time, and none is left
\* out once all workers have returned from do_work.
C3_NodeAppliedExactlyOnce ==
  /\ \A n \in 1..MaxNodes : Len(rd_applied[n]) <= 1
  /\ \A n \in (1..MaxNodes) \ Nodes : rd_applied[n] = <<>>
  /\ RedirtyDone => \A n \in Nodes : Len(rd_applied[n]) = 1

C3_Witness ==
  /\ RedirtyDone
  /\ Len(rd_buffers) = MaxNodes
  /\ rd_applied[1] = <<0>>
  /\ rd_applied[2] = <<1>>
  /\ rd_applied[MaxNodes] = <<0>>

\* A region the pause retains: not in the collection set, or failed evacuation.
Retained(r) == ~input[r].in_cset \/ input[r].failed

\* The logged entries of a set of nodes whose region is retained.
RetainedEntries(ns) ==
  {<<n, i>> \in ns \X (1..Len(Buffer(1))) : Retained(region_for_card(rd_buffers[n][i]))}

AppliedNodes == {n \in Nodes : rd_applied[n] # <<>>}

LoggedCards(ns) == UNION {Range(rd_buffers[n]) : n \in ns}

\* C4: a logged card is marked dirty and counted if and only if its region is
\* not in the collection set or is in it and failed evacuation; other cards are
\* left as they were and not counted. The per-worker counts add up to the number
\* of logged entries whose region is retained.
C4_DirtiedIffRetained ==
  /\ \A c \in Cards :
       card_table[c] = "dirty" <=>
         (c \in LoggedCards(AppliedNodes) /\ Retained(region_for_card(c)))
  /\ SumOver(Workers, num_dirtied) = Cardinality(RetainedEntries(AppliedNodes))
  /\ RedirtyDone =>
       /\ DOMAIN rd_work_item = {w \in Workers : w < rd_workers}
       /\ SumOver(DOMAIN rd_work_item, rd_work_item) = Cardinality(RetainedEntries(Nodes))

C4_Witness ==
  /\ RedirtyDone
  /\ rd_workers > 1
  /\ rd_work_item[0] > 0
  /\ rd_work_item[1] > 0
  /\ \E c \in LoggedCards(Nodes) : ~Retained(region_for_card(c)) /\ card_table[c] = "clean"
  /\ \E c \in LoggedCards(Nodes) : input[region_for_card(c)].failed /\ card_table[c] = "dirty"
  /\ \E c \in LoggedCards(Nodes) : ~input[region_for_card(c)].in_cset /\ card_table[c] = "dirty"

Candidates == {r \in Regions : hum_input[r].candidate}

Visited == 1..(hum_idx - 1)

humScanState == <<hum_phase, hum_cl, hum_task, hum_work_item, cm_reclaimed, hum_freed,
                  hum_set, humongous_count, summary_bytes>>

\* Two single-region humongous objects, one of them a reclaim candidate.
ScenarioB ==
  /\ Cardinality({r \in Regions : hum_input[r].kind = "start"}) = 2
  /\ \A r \in Regions : hum_input[r].kind # "cont"
  /\ Cardinality(Candidates) = 1

\* C5: in the humongous scan a region index leads to reclamation if and only if
\* it is flagged as a reclaim candidate when it is visited; the visit of an index
\* that is not flagged changes nothing but the scan position. With one candidate
\* and one other single-region humongous object, one object is counted and one
\* region is freed.
C5_ReclaimedIffCandidate ==
  /\ [](cm_reclaimed = Candidates \cap Visited)
  /\ [](hum_freed = UNION {humongous_obj_regions(r) : r \in Candidates \cap Visited})
  /\ [](hum_cl.humongous_objects_reclaimed = Cardinality(Candidates \cap Visited))
  /\ []((ScenarioB /\ hum_phase = "done") =>
          /\ hum_work_item = <<1>>
          /\ hum_task.humongous_regions_reclaimed = 1
          /\ Cardinality(hum_freed) = 1)
  /\ [][(hum_phase = "scanning" /\ hum_idx <= MaxRegions /\ hum_idx \notin Candidates) =>
          (hum_idx' = hum_idx + 1 /\ humScanState' = humScanState)]_vars

C5_Witness ==
  /\ ScenarioB
  /\ hum_phase = "done"
  /\ hum_work_item = <<1>>
  /\ Cardinality(hum_freed) = 1
  /\ \E r \in Visited : hum_input[r].kind = "start" /\ r \notin hum_freed

\* The start region of the humongous object a region belongs to.
start_of(r) ==
  CHOOSE st \in Regions : hum_input[st].kind = "start" /\ r \in humongous_obj_regions(st)

\* C6: every humongous object that is reclaimed is a type array; when a reclaim
\* candidate holds an object of another kind, the process aborts before the
\* marking is notified, before a counter rises and before a region of the object
\* is freed, and nothing runs after the abort.
C6_OnlyTypeArraysReclaimed ==
  /\ [](\A r \in cm_reclaimed : hum_input[r].type_array)
  /\ [](\A r \in hum_freed : hum_input[start_of(r)].type_array)
  /\ [][(hum_phase = "scanning" /\ hum_idx <= MaxRegions
          /\ hum_idx \in Candidates /\ ~hum_input[hum_idx].type_array) =>
          /\ hum_phase' = "aborted"
          /\ <<hum_cl, hum_task, hum_work_item, cm_reclaimed, hum_freed, hum_set,
               humongous_count, summary_bytes>>' =
             <<hum_cl, hum_task, hum_work_item, cm_reclaimed, hum_freed, hum_set,
               humongous_count, summary_bytes>>]_vars
  /\ [][hum_phase # "aborted"]_vars

C6_Witness ==
  /\ hum_phase = "aborted"
  /\ hum_idx \in Candidates
  /\ ~hum_input[hum_idx].type_array
  /\ hum_idx \notin hum_freed
  /\ cm_reclaimed # {}

C16_FreedIffNotFailed ==
  /\ \A r \in Regions : hr_type[r] = "Free" <=> (r \in Evacuated0 /\ visits[r] # <<>>)
  /\ failure_handled = {r \in Failed0 : visits[r] # <<>>}
  /\ \A r \in old_set : r \in Failed0 \/ r \notin CSet0
  /\ Joined => report_statistics.regions_freed = Cardinality(Evacuated0)
  /\ (Joined \/ phase = "destroyed") =>
       /\ \A r \in CSet0 : Freed(r) <=> r \notin Failed0
       /\ \A r \in Failed0 : r \in failure_handled /\ r \in old_set /\ hr_type[r] = "Old"
  /\ phase = "destroyed" => evacuation_info.regions_freed = Cardinality(Evacuated0)

C16_Witness ==
  /\ phase = "destroyed"
  /\ evacuation_info.regions_freed = 2
  /\ \E r \in Failed0 : input[r].young /\ r \in old_set /\ hr_type[r] = "Old"

Eden0 == {r \in Regions : input[r].in_cset /\ input[r].young}

\* C17 as stated: the Eden set and the collection set container are both cleared
\* at teardown, after the statistics were reported, and neither before.
C17_BothClearedAtTeardown ==
  /\ phase # "destroyed" => (eden = Eden0 /\ cset_regions = SeqOfSet(CSet0))
  /\ phase = "destroyed" =>
       (eden = {} /\ cset_regions = <<>> /\ policy.cset_regions_freed = 1)

\* C17 as amended: the collection set container is cleared at teardown, with the
\* statistics reported; the Eden set is cleared when the subtask is constructed,
\* before the parallel freeing work starts.
C17_EdenAtConstructionCSetAtTeardown ==
  /\ phase = "none" => eden = Eden0
  /\ phase # "none" => eden = {}
  /\ phase # "destroyed" =>
       (cset_regions = SeqOfSet(CSet0) /\ policy.cset_regions_freed = 0)
  /\ phase = "destroyed" => (cset_regions = <<>> /\ policy.cset_regions_freed = 1)

C17_Witness ==
  /\ phase = "configured"
  /\ Eden0 # {}
  /\ eden = {}
  /\ cset_regions # <<>>
  /\ \E w \in Workers : wpc[w] = "visit"

\* A card that two consecutive nodes log.
SharedCard(n) == Buffer(n)[Len(Buffer(n))]

\* C12: in every reachable card table, do_card_ptr on a card decides by the
\* classification of the card's region alone (retained: dirty and counted,
\* otherwise dropped), the same for every card of the region and every time it
\* is applied; applying it a second time changes nothing more in the table, and
\* a card that is dirty stays dirty.
C12_RedirtyDecisionIdempotent ==
  \A c \in Cards :
    LET once == do_card_ptr_table(card_table, c)
        twice == do_card_ptr_table(once, c)
    IN /\ twice = once
       /\ card_table[c] = "dirty" => once[c] = "dirty"
       /\ once = IF Retained(region_for_card(c))
                 THEN [card_table EXCEPT ![c] = "dirty"] ELSE card_table
       /\ do_card_ptr_count(0, c) = (IF Retained(region_for_card(c)) THEN 1 ELSE 0)
       /\ do_card_ptr_count(do_card_ptr_count(0, c), c) = 2 * do_card_ptr_count(0, c)
       /\ \A d \in Cards :
            region_for_card(d) = region_for_card(c) =>
              do_card_ptr_count(0, d) = do_card_ptr_count(0, c)

C12_Witness ==
  \E n \in Nodes :
    /\ n + 1 \in Nodes
    /\ SharedCard(n) \in Range(rd_buffers[n + 1])
    /\ rd_applied[n] = <<0>>
    /\ rd_applied[n + 1] = <<1>>
    /\ card_table[SharedCard(n)] = "dirty"
    /\ \E d \in Range(rd_buffers[n]) : card_table[d] = "clean"

HumSet0 == {r \in Regions : hum_input[r].kind # "other"}

HumSummaryBytes0 == SumOver(Regions, [r \in Regions |-> hum_used(r)])

HumFreedBytes == SumOver(hum_freed, [r \in Regions |-> hum_used(r)])

\* C19: the regions freed are exactly the regions spanned by the reclaimed
\* objects and they are detached from the humongous set; the closure counts one
\* object per reclaimed object, one region per spanned region and the used bytes
\* of those regions; the task takes these totals over, and its destructor lowers
\* the heap's humongous region count and summary bytes by exactly them, which
\* are untouched before.
C19_HumongousAccounting ==
  /\ hum_freed = UNION {humongous_obj_regions(r) : r \in cm_reclaimed}
  /\ hum_set = HumSet0 \ hum_freed
  /\ hum_cl.humongous_objects_reclaimed = Cardinality(cm_reclaimed)
  /\ hum_cl.humongous_regions_reclaimed = Cardinality(hum_freed)
  /\ hum_cl.freed_bytes = HumFreedBytes
  /\ hum_phase \in {"done", "destroyed"} =>
       hum_task = [humongous_regions_reclaimed |-> Cardinality(hum_freed),
                   bytes_freed |-> HumFreedBytes]
  /\ hum_phase # "destroyed" =>
       (humongous_count = Cardinality(HumSet0) /\ summary_bytes = HumSummaryBytes0)
  /\ hum_phase = "destroyed" =>
       /\ humongous_count = Cardinality(HumSet0) - Cardinality(hum_freed)
       /\ summary_bytes = HumSummaryBytes0 - HumFreedBytes

C19_Witness ==
  /\ hum_phase = "destroyed"
  /\ Cardinality(cm_reclaimed) = 1
  /\ Cardinality(hum_freed) = 2
  /\ hum_set # {}
  /\ humongous_count = 1
  /\ summary_bytes = HumSummaryBytes0 - (GrainBytes + 2 * HeapWordSize)

RecoveryTasks ==
  {"RestoreRetainedRegions", "RestorePreservedMarks", "ClearRetainedRegionBitmaps"}

\* The subtasks a batch constructor registered.
Registered(b) == Range(serial_tasks[b]) \cup Range(parallel_tasks[b])

\* The subtasks whose do_work was called, in the serial or the parallel part.
SerialRan == UNION {{e[1] : e \in Range(serial_log[b])} : b \in Batches}

ParallelRan == {e[2] : e \in par_log}

\* C11: without an evacuation failure neither batch registers or runs
\* RestoreRetainedRegions, RestorePreservedMarks or ClearRetainedRegionBitmaps,
\* and no bitmap is cleared; with a failure batch 1 registers
\* RestoreRetainedRegions and batch 2 registers RestorePreservedMarks, and every
\* worker of the batch has run them when the batch is destroyed.
C11_RecoveryOnlyAfterFailure ==
  /\ "RestoreRetainedRegions" \notin Registered(2)
  /\ Registered(1) \cap {"RestorePreservedMarks", "ClearRetainedRegionBitmaps"} = {}
  /\ ~evacuation_failed =>
       /\ \A b \in Batches : Registered(b) \cap RecoveryTasks = {}
       /\ (SerialRan \cup ParallelRan) \cap RecoveryTasks = {}
       /\ \A r \in Regions : bm_cleared[r] = <<>>
  /\ evacuation_failed =>
       /\ b_batch >= 1 => "RestoreRetainedRegions" \in Range(parallel_tasks[1])
       /\ b_batch = 2 => "RestorePreservedMarks" \in Range(parallel_tasks[2])
       /\ (b_batch = 1 /\ b_stage = "destroyed") =>
            \A w \in Workers :
              w < b_workers => <<1, "RestoreRetainedRegions", w>> \in par_log
       /\ (b_batch = 2 /\ b_stage = "destroyed") =>
            \A w \in Workers :
              w < b_workers => <<2, "RestorePreservedMarks", w>> \in par_log

C11_Witness ==
  /\ ~evacuation_failed
  /\ CSet0 # {}
  /\ b_batch = 2
  /\ b_stage = "destroyed"
  /\ b_workers = MaxWorkers
  /\ <<2, "FreeCollectionSet", MaxWorkers - 1>> \in par_log
  /\ Len(serial_log[1]) >= 2

\* C13: the serial do_work calls of a batch are its registered serial subtasks
\* in registration order, each with worker id 0, and all of them have been made
\* when the first parallel do_work call of the batch is made; batch 1 registers
\* and runs MergePss, RecalculateUsed and then SampleCollectionSetCandidates
\* exactly when sampling is enabled.
C13_SerialInOrderBeforeParallel ==
  /\ \A b \in Batches :
       /\ Len(serial_log[b]) <= Len(serial_tasks[b])
       /\ \A i \in 1..Len(serial_log[b]) : serial_log[b][i] = <<serial_tasks[b][i], 0>>
  /\ (par_log # {} \/ b_stage \in {"dispatched", "destroyed"}) =>
       Len(serial_log[b_batch]) = Len(serial_tasks[b_batch])
  /\ b_batch >= 1 =>
       serial_tasks[1] =
         <<"MergePss", "RecalculateUsed">>
           \o (IF flags.should_sample THEN <<"SampleCollectionSetCandidates">> ELSE <<>>)
  /\ (b_batch = 2 \/ b_stage \in {"dispatched", "destroyed"}) =>
       serial_log[1] =
         <<(<<"MergePss", 0>>), (<<"RecalculateUsed", 0>>)>>
           \o (IF flags.should_sample
               THEN <<(<<"SampleCollectionSetCandidates", 0>>)>> ELSE <<>>)

C13_Witness ==
  /\ b_batch = 1
  /\ b_stage = "dispatched"
  /\ flags.should_sample
  /\ Len(serial_log[1]) = 3
  /\ b_workers = MaxWorkers
  /\ <<1, "CleanupAfterScanHeapRoots", MaxWorkers - 1>> \in par_log

\* C20: batch 2 registers ClearRetainedRegionBitmaps exactly when a region failed
\* evacuation and the pause is not a concurrent-start pause, and no other place
\* registers it; a bitmap is cleared at most once and only for a failed region;
\* when the subtask has run, every failed region's bitmap was cleared by exactly
\* one worker; in a concurrent-start pause no bitmap is cleared.
C20_ClearBitmapsScheduling ==
  /\ "ClearRetainedRegionBitmaps" \notin Registered(1) \cup Range(serial_tasks[2])
  /\ b_batch = 2 =>
       ("ClearRetainedRegionBitmaps" \in Range(parallel_tasks[2])
          <=> (evacuation_failed /\ ~flags.concurrent_start))
  /\ \A r \in Regions : Len(bm_cleared[r]) <= 1
  /\ \A r \in Regions \ Failed0 : bm_cleared[r] = <<>>
  /\ (b_batch = 2 /\ b_stage = "destroyed" /\ ~flags.concurrent_start) =>
       \A r \in Failed0 : Len(bm_cleared[r]) = 1
  /\ flags.concurrent_start => \A r \in Regions : bm_cleared[r] = <<>>

C20_Witness ==
  /\ b_batch = 2
  /\ b_stage = "destroyed"
  /\ b_workers = MaxWorkers
  /\ \E r1, r2 \in Failed0 : bm_cleared[r1] = <<0>> /\ bm_cleared[r2] = <<1>>

\* C18 as stated: every change of the old set and of a region's containing set
\* made by the cleanup subtasks happens while a worker holds OldSets_lock.
C18_AllMutationsUnderLock ==
  [][(old_set' # old_set \/ hum_set' # hum_set) => OldSets_lock # NoWorker]_vars

\* C18 as amended: every insertion into the old set by a FreeCollectionSet worker
\* happens while that worker holds OldSets_lock, at most one worker is in the
\* insertion step at a time, the lock is held in that step only and only for a
\* failed region, and handle_evacuation_failure was called on the region before
\* the lock was requested, by a worker not holding it; the humongous reclaimer
\* detaches the regions it frees from their containing set without the lock.
C18_OldSetInsertionUnderLock ==
  /\ [](\A w \in Workers : wpc[w] = "locked" <=> OldSets_lock = w)
  /\ [](Cardinality({w \in Workers : wpc[w] = "locked"}) <= 1)
  /\ [](\A w \in Workers :
          wpc[w] \in {"lock", "locked"} =>
            (evac_failed(wreg[w]) /\ wreg[w] \in failure_handled))
  /\ [][old_set' # old_set =>
          (OldSets_lock # NoWorker /\ OldSets_lock' = NoWorker
             /\ old_set' = old_set \cup {wreg[OldSets_lock]})]_vars
  /\ [][failure_handled' # failure_handled =>
          \E w \in Workers :
            /\ wpc[w] = "visit" /\ wpc'[w] = "lock"
            /\ OldSets_lock # w /\ OldSets_lock' = OldSets_lock]_vars
  /\ [][hum_set' # hum_set =>
          (OldSets_lock' = OldSets_lock /\ wpc' = wpc /\ old_set' = old_set)]_vars

C18_Witness ==
  /\ hum_set # HumSet0
  /\ \E w1, w2 \in Workers :
       /\ wpc[w1] = "locked"
       /\ wpc[w2] = "lock"
       /\ wreg[w1] # wreg[w2]
       /\ wreg[w1] \notin old_set

Assigned == sched_pc = "assigned"

Tasks == 1..Len(sched_costs)

\* max(1, round(cost / total_cost * available_workers)) of subtask i, written out.
Target(i) ==
  LET total == SeqSum(sched_costs)
      share == (2 * sched_costs[i] * sched_avail + total) \div (2 * total)
  IN IF total = 0 \/ share < 1 THEN 1 ELSE share

Occurrences(list, n) == Cardinality({i \in 1..Len(list) : list[i] = n})

ClaimedBy(w, n) == (rd_pc[w] = "apply" /\ rd_node[w] = n) \/ rd_applied[n] = <<w>>

\* A step in which the compare-and-swap of worker w failed: it stays in the
\* loop with a new value of next.
CasFailed(w) == rd_pc[w] = "loop" /\ rd_pc'[w] = "loop" /\ rd_next'[w] # rd_next[w]

\* C22: a compare-and-swap of a worker fails only when another worker claimed
\* the node it compared with, and it then continues from the head it observed;
\* a worker that has not returned from do_work can always take a step; with
\* every worker scheduled fairly all nodes are claimed and every worker
\* observes a null head and returns.
C22_ClaimLoopLockFreeAndTerminates ==
  /\ [][\A w \in Workers :
         CasFailed(w) =>
           /\ rd_head # rd_next[w]
           /\ rd_head' = rd_head
           /\ rd_next'[w] = rd_head
           /\ \E v \in Workers \ {w} : ClaimedBy(v, rd_next[w])]_vars
  /\ [](\A w \in Workers :
         (w < rd_workers /\ rd_pc[w] # "done") => ENABLED redirty_step(w))
  /\ <>[](/\ rd_head = NoNode
          /\ \A w \in Workers : w < rd_workers => rd_pc[w] = "done" /\ rd_next[w] = NoNode)

\* A worker lost a compare-and-swap and has returned.
C22_Witness ==
  /\ rd_workers = MaxWorkers
  /\ Len(rd_buffers) = MaxNodes
  /\ RedirtyJoined
  /\ \E w \in Workers : rd_node[w] # NoNode /\ rd_applied[rd_node[w]] # <<w>>

\* Batch 2 is over: its subtasks were destroyed.
Batch2Done ==
  /\ phase = "destroyed"
  /\ rd_stage = "destroyed"
  /\ hum_phase \in {"none", "destroyed"}

\* The regions freed so far, by collection-set freeing or humongous reclamation.
FreedRegions == {r \in Regions : hr_type[r] = "Free"} \cup hum_freed

\* The cards the redirty subtask dirtied: the card table starts clean.
Dirtied == {c \in Cards : card_table[c] = "dirty"}

\* The cards in the buffers of the working list.
Logged == {c \in Cards : \E n \in 1..Len(rd_buffers) :
                           \E i \in 1..Len(rd_buffers[n]) : rd_buffers[n][i] = c}

Applied == {c \in Cards : \E n \in 1..Len(rd_buffers) :
                            /\ rd_applied[n] # <<>>
                            /\ \E i \in 1..Len(rd_buffers[n]) : rd_buffers[n][i] = c}

\* FreeCSetClosure::do_heap_region was applied to the region.
Processed(r) == visits[r] # <<>>

\* C24: whatever FreeCollectionSet has done to a region so far, a card the
\* redirty closure was applied to is dirty exactly when its region is not an
\* evacuated region of the collection set; no step changes the collection-set
\* membership or the evacuation-failure membership of a region, and the
\* collection-set container changes only after every worker returned from both
\* subtasks.
C24_DecisionIndependentOfFreeing ==
  /\ [](\A c \in Applied :
         (card_table[c] = "dirty") <=> (region_for_card(c) \notin Evacuated0))
  /\ [][\A r \in Regions :
         /\ is_in_cset(r)' = is_in_cset(r)
         /\ evac_failed(r)' = evac_failed(r)]_vars
  /\ [][cset_regions' # cset_regions => (Batch2Joined /\ phase' = "destroyed")]_vars

\* Both orders at once: a card was dirtied before its failed region was
\* processed, an evacuated region was freed before its card was looked at, and
\* a worker is in each subtask.
C24_Witness ==
  /\ \E c \in Applied : /\ region_for_card(c) \in Failed0
                         /\ ~Processed(region_for_card(c))
                         /\ card_table[c] = "dirty"
  /\ \E c \in Logged \ Applied : /\ region_for_card(c) \in Evacuated0
                                  /\ hr_type[region_for_card(c)] = "Free"
  /\ \E w \in Workers : rd_pc[w] \in {"loop", "apply"}
  /\ \E w \in Workers : wpc[w] \notin {"idle", "done"}

\* The regions of the humongous objects that are reclaim candidates.
CandidateRegions ==
  UNION {humongous_obj_regions(r) : r \in {x \in Regions : hum_input[x].candidate}}

\* A parallel subtask of batch 2 has started.
Parallel2Started == b_batch = 2 /\ (b_stage = "dispatched" \/ par_log # {})

\* C25: EagerlyReclaimHumongousObjects is a serial subtask of batch 2 exactly
\* when the heap has a reclaim candidate and is a subtask of nothing else; it
\* works only in the serial part of batch 2, with worker id 0; when a parallel
\* subtask of batch 2 starts it has freed every region of every candidate; the
\* humongous region count and the heap's used bytes change only when it is
\* destroyed, after the batch.
C25_ReclaimSerialBeforeParallel ==
  /\ [](/\ b_batch = 2 =>
            (("EagerlyReclaimHumongousObjects" \in Range(serial_tasks[2]))
               <=> has_humongous_reclaim_candidates)
        /\ \A b \in Batches :
             \A i \in 1..Len(parallel_tasks[b]) :
               parallel_tasks[b][i] # "EagerlyReclaimHumongousObjects"
        /\ \A i \in 1..Len(serial_tasks[1]) :
             serial_tasks[1][i] # "EagerlyReclaimHumongousObjects"
        /\ \A b \in Batches : \A i \in 1..Len(serial_log[b]) : serial_log[b][i][2] = 0
        /\ hum_phase # "none" => (b_batch = 2 /\ has_humongous_reclaim_candidates)
        /\ (Parallel2Started /\ has_humongous_reclaim_candidates) =>
             (hum_phase \in {"done", "destroyed"} /\ hum_freed = CandidateRegions))
  /\ [][(hum_freed' # hum_freed \/ hum_cl' # hum_cl \/ hum_task' # hum_task) =>
         (b_batch = 2 /\ b_stage = "constructed" /\ par_log = {}
            /\ NextSerial = "EagerlyReclaimHumongousObjects")]_vars
  /\ [][(humongous_count' # humongous_count \/ summary_bytes' # summary_bytes) =>
         (b_batch = 2 /\ b_stage = "destroyed" /\ hum_phase = "done"
            /\ hum_phase' = "destroyed")]_vars

\* Batch 2 ran all five parallel subtasks after the reclaimer freed a region,
\* and the reclaimer was destroyed.
C25_Witness ==
  /\ b_batch = 2
  /\ b_stage = "destroyed"
  /\ hum_phase = "destroyed"
  /\ hum_freed # {}
  /\ \A t \in {"RestorePreservedMarks", "ClearRetainedRegionBitmaps", "RedirtyLoggedCards",
                "ResizeThreadLABs", "FreeCollectionSet"} :
       \E w \in Workers : <<2, t, w>> \in par_log

\* _g1h->is_on_master_free_list(r)
is_on_master_free_list(r) == r \in master_free_list

\* A step in which worker w returns from FreeCSetClosure::do_heap_region: from
\* handle_evacuated_region, or from handle_failed_region with the region added
\* to the old set.
HandledRegion(w) ==
  \/ wpc[w] = "visit" /\ wpc'[w] \in {"iter", "done"}
  \/ wpc[w] = "locked" /\ wpc'[w] \in {"iter", "done"}

\* C26: when a worker returns from do_heap_region on a region, freed or
\* retained, the region is not on the master free list; no region the closure
\* was applied to is ever on it.
C26_HandledRegionNotOnMasterFreeList ==
  /\ [][\A w \in Workers : HandledRegion(w) => wreg[w] \notin master_free_list']_vars
  /\ [](\A r \in Regions : visits[r] # <<>> => ~is_on_master_free_list(r))

\* Both workers returned from do_heap_region, one on a freed region and one on
\* a retained region.
C26_Witness ==
  /\ \E r \in Evacuated0 : visits[r] = <<0>> /\ hr_type[r] = "Free"
  /\ \E r \in Failed0 : visits[r] = <<1>> /\ r \in old_set
  /\ phase = "configured"

\* checkCatchesAndSendQuitTo has returned.
QuitReturned == q_pc = "returned"

\* C27: SIGQUIT reaches the target only if sysctl succeeded and the target
\* catches and does not ignore SIGQUIT, and at most once; the call returns true
\* exactly when the signal was sent, and then without an exception; when the
\* signal state read is not caught-and-not-ignored, kill is not called and the
\* call returns false, with AttachNotSupportedException exactly when
\* throwIfNotReady is set; a failed sysctl or kill leaves an IOException and the
\* call returns false.
C27_QuitOnlyWhenCaughtNotIgnored ==
  /\ q_sent <= q_kills
  /\ q_kills <= 1
  /\ q_sent = 1 =>
       (q_in.sysctl_ok /\ q_in.exists /\ q_in.caught /\ ~q_in.ignored)
  /\ q_kills = 1 => (q_kiproc.caught /\ ~q_kiproc.ignored)
  /\ QuitReturned =>
       /\ q_ret <=> (q_sent = 1)
       /\ q_ret => q_exc = "none"
       /\ (q_in.sysctl_ok /\ ~(q_kiproc.caught /\ ~q_kiproc.ignored)) =>
            /\ q_kills = 0
            /\ ~q_ret
            /\ q_exc = IF q_in.throwIfNotReady THEN "AttachNotSupportedException"
                                                ELSE "none"
       /\ ~q_in.sysctl_ok => (q_kills = 0 /\ ~q_ret /\ q_exc = "IOException")
       /\ (q_kills = 1 /\ q_sent = 0) => (~q_ret /\ q_exc = "IOException")

\* A call on a target that catches and ignores SIGQUIT returned without a
\* signal and with the exception asked for.
C27_Witness ==
  /\ QuitReturned
  /\ q_in.exists /\ q_in.caught /\ q_in.ignored
  /\ q_in.throwIfNotReady
  /\ q_exc = "AttachNotSupportedException"
  /\ q_kills = 0

\* write has returned without an exception.
WriteReturnedNormally == wr_pc = "returned" /\ wr_exc = "none"

\* The bytes of the array from off on that write has passed so far.
WrittenSoFar == SubSeq(wr_in.ba, wr_in.off + 1, wr_off)

\* C28: the descriptor has accepted, in order, the bytes of the array from off
\* up to the current position, and a normal return comes only when these are
\* exactly bufLen bytes; every chunk has at most 128 bytes and starts at the
\* first unwritten byte; an interrupted write is called again on the same
\* chunk; any other result of zero or less raises an IOException and ends the
\* call; the loop body runs whatever bufLen is, and a call with bufLen = 0
\* ends with an IOException.
C28_WriteAllOrThrow ==
  /\ [](/\ wr_pc # "idle" =>
            /\ wr_out = WrittenSoFar
            /\ (wr_off - wr_in.off) + wr_remaining = wr_in.bufLen
        /\ wr_pc = "call" =>
            /\ wr_len <= BufSize
            /\ wr_len <= wr_remaining
            /\ wr_buf = SubSeq(wr_in.ba, wr_in.off + Len(wr_out) + 1,
                                wr_in.off + Len(wr_out) + wr_len)
        /\ WriteReturnedNormally =>
            /\ Len(wr_out) = wr_in.bufLen
            /\ wr_out = SubSeq(wr_in.ba, wr_in.off + 1, wr_in.off + wr_in.bufLen)
        /\ (wr_pc = "returned" /\ wr_in.bufLen = 0) =>
            (wr_exc = "IOException" /\ wr_out = <<>>)
        /\ wr_exc # "none" =>
            (wr_pc = "returned" /\ wr_n <= 0 /\ ~(wr_n = -1 /\ wr_errno = "EINTR")))
  /\ [][/\ wr_pc = "idle" => wr_pc' = "fill"
        /\ wr_pc = "fill" => wr_pc' = "call"
        /\ wr_pc = "call" =>
            /\ (wr_n' = -1 /\ wr_errno' = "EINTR") =>
                 (wr_pc' = "call" /\ UNCHANGED <<wr_out, wr_off, wr_remaining, wr_buf,
                                                  wr_len, wr_exc>>)
            /\ (wr_n' <= 0 /\ ~(wr_n' = -1 /\ wr_errno' = "EINTR")) =>
                 (wr_pc' = "returned" /\ wr_exc' = "IOException" /\ wr_out' = wr_out)
            /\ wr_n' > 0 =>
                 /\ wr_out' = wr_out \o SubSeq(wr_buf, 1, wr_n')
                 /\ wr_exc' = "none"
                 /\ wr_pc' = "returned" <=> Len(wr_out') = wr_in.bufLen]_vars

\* A write of more than one chunk returned normally after a short write and an
\* interrupted one.
C28_Witness ==
  /\ WriteReturnedNormally
  /\ wr_in.bufLen > BufSize
  /\ wr_in.off > 0
  /\ wr_errno = "EINTR"
  /\ (wr_in.bufLen - wr_len) % BufSize # 0

====
